---- MODULE Spec2Model ----
(***************************************************************************)
(* Model of ArticlesService (user-feeds service): the delivery planner    *)
(* getArticlesToDeliverFromXml with its deduplication store, the          *)
(* comparison registry and the staged persistence of storeArticles.       *)
(*                                                                         *)
(* Values: a field value 0 stands for an absent or empty (falsy) value,    *)
(* a positive number for a non-empty string.  A raw date 0 stands for an   *)
(* absent or invalid date, a positive number for a timestamp.              *)
(***************************************************************************)
EXTENDS Integers, Sequences, FiniteSets, TLC

\* ------------------------------------------------------------------ bounds
MaxId == 2
MaxVal == 1
MaxBatch == 2
MaxThreshold == 1

\* ------------------------------------------------------------- vocabulary
FeedIds == {"feed1"}

ComparisonFields == {"title", "description"}

\* The comparison lists a user feed can be configured with.
ComparisonLists == {<<>>, <<"title">>, <<"description">>, <<"title", "description">>}

NoValue == 0

DefaultPlaceholders == <<"date", "pubdate">>

\* dateChecks: defined is FALSE for an absent dateChecks object and
\* hasReferences is FALSE for an absent datePlaceholderReferences.
NoDateChecks ==
    [defined |-> FALSE, hasReferences |-> FALSE,
     datePlaceholderReferences |-> <<>>, oldArticleDateDiffMsThreshold |-> 0]

DateCheckOptions ==
    {NoDateChecks} \cup
    {[defined |-> TRUE, hasReferences |-> FALSE,
      datePlaceholderReferences |-> <<>>, oldArticleDateDiffMsThreshold |-> t] :
        t \in 1..MaxThreshold}

\* dayjs(): the time of the poll.
Now == MaxId + 1

\* The items the feed parser can emit: guid, title, description; an item
\* with guid k was published at time k.
Items == [guid : 1..MaxId, title : 0..MaxVal, description : 0..MaxVal]

Range(s) == {s[i] : i \in 1..Len(s)}

HasDuplicates(s) == \E i, j \in 1..Len(s) : i < j /\ s[i] = s[j]

Reverse(s) == [i \in 1..Len(s) |-> s[Len(s) + 1 - i]]

Truthy(v) == v # NoValue

\* ------------------------------------------------------------------ state
VARIABLES
    fieldRows,      \* StoredFieldRows: set of <<feedId, fieldName, fieldHashedValue>>
    comparisons,    \* ComparisonRegistry rows: set of <<feedId, fieldName>>
    feedXml,        \* per feed: the items its XML currently lists, newest first
    feedOptions,    \* per feed: blockingComparisons, passingComparisons, dateChecks
    last,           \* the latest getArticlesToDeliverFromXml call: what it
                    \* returned and the store it started from
    invocation,     \* per concurrent invocation of the delivery pass: the
                    \* await it stands at and the locals it holds
    dateCall,       \* the latest filterArticlesBasedOnDateChecks call
    cacheEntries,   \* the cache store: per key the body and the seconds it
                    \* still has to live
    upstream,       \* per URL: the body the Fetcher hands back for it
    serviceCall,    \* the latest call of the cache layer or of
                    \* fetchFeedArticles: arguments, cache it started from,
                    \* Fetcher calls it made, what it returned or raised
    parse           \* one getArticlesFromXml call: the parser and its
                    \* timer, the promise, the flatten and injection calls

planVars == <<fieldRows, comparisons, feedXml, feedOptions, last>>

raceVars == <<invocation>>

dateVars == <<dateCall>>

fetchVars == <<cacheEntries, upstream, serviceCall>>

\* What the delivery pass and its environment leave alone.
parseVars == <<parse>>

offPlanVars == <<raceVars, dateVars, fetchVars, parseVars>>

vars == <<planVars, raceVars, dateVars, fetchVars, parseVars>>

\* ---------------------------------------------------------------- hashing
\* sha1.copy().update(value).digest("hex"): the shared hasher is never
\* updated itself, so every digest starts from the clean state.
Sha1Hex(value) == <<"sha1", value>>

getNestedPrimitiveValue(flattened, field) ==
    IF field \in DOMAIN flattened THEN flattened[field] ELSE NoValue

\* --------------------------------------------------------- article builder
BuildArticle(item) ==
    [flattened |-> [id |-> item.guid,
                    idHash |-> Sha1Hex(item.guid),
                    title |-> item.title,
                    description |-> item.description],
     raw |-> [date |-> item.guid, pubdate |-> item.guid]]

\* Variant: the articles come out last item first.
getArticlesFromXmlLastFirst(xml) == [i \in 1..Len(xml) |-> BuildArticle(xml[Len(xml) + 1 - i])]

getArticlesFromXml(xml) == [i \in 1..Len(xml) |-> BuildArticle(xml[i])]

\* -------------------------------------------------------------- the stores
\* FieldStore.persist inside a transaction: a row that is already visible
\* to the transaction, or that the insert lists twice, violates the unique
\* (feedId, fieldName, fieldHashedValue) constraint.
persist(visible, inserts) ==
    [violation |-> HasDuplicates(inserts) \/ Range(inserts) \cap visible # {},
     rows |-> visible \cup Range(inserts)]

\* em.persist of the new registry entities, flushed at commit: the registry
\* is unique on (feedId, fieldName).
persistComparisonNames(visible, entities) ==
    [violation |-> HasDuplicates(entities) \/ Range(entities) \cap visible # {},
     names |-> visible \cup Range(entities)]

\* Variant: the rows of any feed count.
hasArticlesStoredForAnyFeed(db, feedId) == db.rows # {}

hasArticlesStoredForFeed(db, feedId) == \E r \in db.rows : r[1] = feedId

findIdFieldsForFeed(db, feedId, idHashes) ==
    {h \in Range(idHashes) : <<feedId, "id", h>> \in db.rows}

someFieldsExist(db, feedId, queries) ==
    \E i \in 1..Len(queries) : <<feedId, queries[i].name, queries[i].value>> \in db.rows

findComparisonNames(db, feedId, comparisonFields) ==
    {name \in Range(comparisonFields) : <<feedId, name>> \in db.comparisons}

\* ------------------------------------------------------------ storeArticles
comparisonFieldInserts(feedId, articles, comparisonFields) ==
    LET m == Len(comparisonFields)
        candidates == [k \in 1..(Len(articles) * m) |->
            LET article == articles[((k - 1) \div m) + 1]
                field == comparisonFields[((k - 1) % m) + 1]
            IN  [field |-> field,
                 fieldValue |-> getNestedPrimitiveValue(article.flattened, field)]]
        kept == SelectSeq(candidates, LAMBDA c : Truthy(c.fieldValue))
    IN  [k \in 1..Len(kept) |-> <<feedId, kept[k].field, Sha1Hex(kept[k].fieldValue)>>]

\* tx: the rows and names visible to the transaction and whether a unique
\* violation was raised in it.
storeArticleComparisons(tx, feedId, articles, comparisonFields) ==
    IF Len(comparisonFields) = 0 THEN tx
    ELSE
        LET found == findComparisonNames([rows |-> tx.rows, comparisons |-> tx.comparisons],
                                         feedId, comparisonFields)
            names == SelectSeq(comparisonFields, LAMBDA name : name \notin found)
            comparisonNamesToStore == [k \in 1..Len(names) |-> <<feedId, names[k]>>]
            flushed == persistComparisonNames(tx.comparisons, comparisonNamesToStore)
            saved == persist(tx.rows, comparisonFieldInserts(feedId, articles, comparisonFields))
        IN  [rows |-> saved.rows,
             comparisons |-> flushed.names,
             violation |-> tx.violation \/ flushed.violation \/ saved.violation]

\* The loop that fills fieldsToSave: an id row is pushed for every article;
\* the loop does not read options.skipIdStorage.
idFieldInserts(feedId, articles, skipIdStorage) ==
    [i \in 1..Len(articles) |-> <<feedId, "id", articles[i].flattened.idHash>>]

\* Every row one storeArticles call builds for FieldStore.persist; the id
\* rows are handed over first, in every call.
storeArticlesInserts(feedId, articles, comparisonFields, skipIdStorage) ==
    Range(idFieldInserts(feedId, articles, skipIdStorage))
        \cup Range(comparisonFieldInserts(feedId, articles, comparisonFields))

\* Variant: the registry rows are flushed outside the transaction, so a
\* rolled back call leaves them committed.
storeArticlesRegistryOutside(db, feedId, articles, comparisonFields, skipIdStorage) ==
    LET fieldsToSave == idFieldInserts(feedId, articles, skipIdStorage)
        saved == persist(db.rows, fieldsToSave)
        tx == storeArticleComparisons(
                  [rows |-> saved.rows, comparisons |-> db.comparisons,
                   violation |-> saved.violation],
                  feedId, articles, comparisonFields)
    IN  IF tx.violation THEN [rows |-> db.rows, comparisons |-> tx.comparisons]
        ELSE [rows |-> tx.rows, comparisons |-> tx.comparisons]

\* A unique violation rolls the transaction back and is swallowed.
storeArticles(db, feedId, articles, comparisonFields, skipIdStorage) ==
    LET fieldsToSave == idFieldInserts(feedId, articles, skipIdStorage)
        saved == persist(db.rows, fieldsToSave)
        tx == storeArticleComparisons(
                  [rows |-> saved.rows, comparisons |-> db.comparisons,
                   violation |-> saved.violation],
                  feedId, articles, comparisonFields)
    IN  IF tx.violation THEN db
        ELSE [rows |-> tx.rows, comparisons |-> tx.comparisons]

\* --------------------------------------------------------------- failures
\* What a storeArticles transaction can raise: name is the class of the
\* exception, code the code of the driver.
NoError == [name |-> "none", code |-> ""]

UniqueConstraintViolation == [name |-> "UniqueConstraintViolationException", code |-> "23505"]

UniqueViolationOtherCode == [name |-> "UniqueConstraintViolationException", code |-> "1062"]

ConnectionFailure == [name |-> "DriverException", code |-> "08006"]

RaisedErrors == {UniqueConstraintViolation, UniqueViolationOtherCode, ConnectionFailure}

\* Variant: every exception of the driver is swallowed.
isSwallowedAlways(err) == TRUE

\* The test of the catch block of storeArticles.
isSwallowed(err) == err.name = "UniqueConstraintViolationException" /\ err.code = "23505"

\* storeArticles when the store raises `raised` inside the transaction
\* (NoError: it raises nothing but the collisions of the rows themselves):
\* the transaction is rolled back, the catch block swallows or rethrows.
storeArticlesOutcome(db, feedId, articles, comparisonFields, skipIdStorage, raised) ==
    IF raised = NoError
    THEN [db |-> storeArticles(db, feedId, articles, comparisonFields, skipIdStorage),
          error |-> NoError]
    ELSE [db |-> db, error |-> IF isSwallowed(raised) THEN NoError ELSE raised]

\* ------------------------------------------------------- the delivery pass
\* Variant: the seed check is lost, every poll is taken for a later poll.
hasPriorArticlesStoredAlways(db, feedId) == TRUE

hasPriorArticlesStored(db, feedId) == hasArticlesStoredForFeed(db, feedId)

\* Variant: the ids found in the store are not filtered out.
filterForNewArticlesUnfiltered(db, feedId, articles) ==
    LET firsts == SelectSeq([i \in 1..Len(articles) |-> i],
                     LAMBDA i : \A j \in 1..(i - 1) :
                         articles[j].flattened.idHash # articles[i].flattened.idHash)
    IN  [k \in 1..Len(firsts) |->
            LET at == {i \in 1..Len(articles) :
                          articles[i].flattened.idHash
                              = articles[firsts[k]].flattened.idHash}
            IN  articles[CHOOSE i \in at : \A j \in at : j <= i]]

\* Variant: the articles are not keyed by idHash first.
filterForNewArticlesRepeated(db, feedId, articles) ==
    LET articleIds == [k \in 1..Len(articles) |-> articles[k].flattened.idHash]
        foundIds == findIdFieldsForFeed(db, feedId, articleIds)
    IN  SelectSeq(articles, LAMBDA article : article.flattened.idHash \notin foundIds)

\* new Map(articles.map(a => [idHash, a])): the keys keep the order of
\* their first insertion, each key holds the last article inserted for it.
filterForNewArticles(db, feedId, articles) ==
    LET firsts == SelectSeq([i \in 1..Len(articles) |-> i],
                     LAMBDA i : \A j \in 1..(i - 1) :
                         articles[j].flattened.idHash # articles[i].flattened.idHash)
        articleIds == [k \in 1..Len(firsts) |-> articles[firsts[k]].flattened.idHash]
        mapGet(idHash) ==
            LET at == {i \in 1..Len(articles) : articles[i].flattened.idHash = idHash}
            IN  articles[CHOOSE i \in at : \A j \in at : j <= i]
        foundIds == findIdFieldsForFeed(db, feedId, articleIds)
        newIds == SelectSeq(articleIds, LAMBDA id : id \notin foundIds)
    IN  [k \in 1..Len(newIds) |-> mapGet(newIds[k])]

\* Variant: every requested comparison is reported as stored.
areComparisonsStoredAll(db, feedId, comparisonFields) ==
    [k \in 1..Len(comparisonFields) |->
        [field |-> comparisonFields[k], isStored |-> TRUE]]

areComparisonsStored(db, feedId, comparisonFields) ==
    LET storedFields == findComparisonNames(db, feedId, comparisonFields)
    IN  [k \in 1..Len(comparisonFields) |->
            [field |-> comparisonFields[k],
             isStored |-> comparisonFields[k] \in storedFields]]

StoredFieldsOf(results) ==
    LET kept == SelectSeq(results, LAMBDA r : r.isStored)
    IN  [k \in 1..Len(kept) |-> kept[k].field]

UnstoredFieldsOf(results) ==
    LET kept == SelectSeq(results, LAMBDA r : ~r.isStored)
    IN  [k \in 1..Len(kept) |-> kept[k].field]

articleFieldsSeenBefore(db, feedId, article, fieldKeys) ==
    LET keys == SelectSeq(fieldKeys,
                    LAMBDA key : Truthy(getNestedPrimitiveValue(article.flattened, key)))
        queries == [k \in 1..Len(keys) |->
                       [name |-> keys[k],
                        value |-> Sha1Hex(getNestedPrimitiveValue(article.flattened, keys[k]))]]
    IN  IF Len(queries) = 0 THEN FALSE
        ELSE someFieldsExist(db, feedId, queries)

\* Variant: no new article is ever blocked.
checkBlockingComparisonsNever(db, feedId, blockingComparisons, newArticles, currentlyStoredComparisons) ==
    newArticles

checkBlockingComparisons(db, feedId, blockingComparisons, newArticles, currentlyStoredComparisons) ==
    LET currentlyStoredBlockingComparisons ==
            SelectSeq(blockingComparisons,
                      LAMBDA r : r \in Range(currentlyStoredComparisons))
    IN  IF Len(newArticles) = 0 \/ Len(currentlyStoredBlockingComparisons) = 0
        THEN newArticles
        ELSE IF Len(blockingComparisons) = 0 THEN newArticles
        ELSE SelectSeq(newArticles,
                 LAMBDA article : ~articleFieldsSeenBefore(db, feedId, article,
                                       currentlyStoredBlockingComparisons))

checkPassingComparisons(db, feedId, passingComparisons, seenArticles, currentlyStoredComparisons) ==
    LET currentlyStoredPassingComparisons ==
            SelectSeq(passingComparisons,
                      LAMBDA r : r \in Range(currentlyStoredComparisons))
        relevantComparisons ==
            StoredFieldsOf(areComparisonsStored(db, feedId, passingComparisons))
    IN  IF Len(seenArticles) = 0 THEN seenArticles
        ELSE IF Len(passingComparisons) = 0
                \/ Len(currentlyStoredPassingComparisons) = 0 THEN <<>>
        ELSE IF Len(relevantComparisons) = 0 THEN <<>>
        ELSE SelectSeq(seenArticles,
                 LAMBDA article : ~articleFieldsSeenBefore(db, feedId, article,
                                       relevantComparisons))

filterArticlesBasedOnDateChecks(articles, dateChecks) ==
    IF ~dateChecks.defined THEN articles
    ELSE IF dateChecks.oldArticleDateDiffMsThreshold = 0 THEN articles
    ELSE
        LET placeholdersToUse ==
                IF dateChecks.hasReferences THEN dateChecks.datePlaceholderReferences
                ELSE DefaultPlaceholders
            rawValue(a, placeholder) ==
                IF placeholder \in DOMAIN a.raw THEN a.raw[placeholder] ELSE NoValue
            validDates(a) ==
                SelectSeq([k \in 1..Len(placeholdersToUse) |->
                              rawValue(a, placeholdersToUse[k])],
                          LAMBDA d : d # NoValue)
        IN  SelectSeq(articles,
                LAMBDA a : /\ Len(validDates(a)) > 0
                           /\ Now - validDates(a)[1] <= dateChecks.oldArticleDateDiffMsThreshold)

\* Variant: the registry rows of the feed are left behind.
deleteInfoForFeedRowsOnly(db, feedId) ==
    [rows |-> {r \in db.rows : r[1] # feedId}, comparisons |-> db.comparisons]

\* deleteAllForFeed of the field store, then nativeDelete({feed_id}) of the
\* registry.
deleteInfoForFeed(db, feedId) ==
    [rows |-> {r \in db.rows : r[1] # feedId},
     comparisons |-> {c \in db.comparisons : c[1] # feedId}]

\* Variant: an empty batch is handled like any other.
isEmptyBatchNever(articles) == FALSE

\* !articles.length
isEmptyBatch(articles) == Len(articles) = 0

SeedPassResult(db, articles) ==
    [kind |-> "seed", allArticles |-> articles, articlesToDeliver |-> <<>>,
     newArticles |-> <<>>, seenArticles |-> <<>>, articlesPastBlocks |-> <<>>,
     articlesPassedComparisons |-> <<>>, skipIdInserts |-> {}, db |-> db]

\* The whole handler: what it returns, the newArticles, articlesPastBlocks
\* and articlesPassedComparisons it computed on the way, the rows its
\* storeArticles calls with skipIdStorage = true handed to the field store,
\* and the store and registry it leaves behind.
getArticlesToDeliverFromXml(db, feedId, feedXmlBody, options) ==
    LET articles == getArticlesFromXml(feedXmlBody)
        blockingComparisons == options.blockingComparisons
        passingComparisons == options.passingComparisons
    IN
    IF isEmptyBatch(articles) THEN
        [kind |-> "empty", allArticles |-> articles, articlesToDeliver |-> <<>>,
         newArticles |-> <<>>, seenArticles |-> <<>>, articlesPastBlocks |-> <<>>,
         articlesPassedComparisons |-> <<>>, skipIdInserts |-> {}, db |-> db]
    ELSE IF ~hasPriorArticlesStored(db, feedId) THEN
        SeedPassResult(
            storeArticles(db, feedId, articles,
                          blockingComparisons \o passingComparisons, FALSE),
            articles)
    ELSE
        LET newArticles == filterForNewArticles(db, feedId, articles)
            seenArticles ==
                SelectSeq(articles,
                    LAMBDA article : ~\E k \in 1..Len(newArticles) :
                        newArticles[k].flattened.idHash = article.flattened.idHash)
            allComparisons == blockingComparisons \o passingComparisons
            comparisonStorageResults == areComparisonsStored(db, feedId, allComparisons)
            storedComparisons == StoredFieldsOf(comparisonStorageResults)
            articlesPastBlocks ==
                checkBlockingComparisons(db, feedId, blockingComparisons,
                                         newArticles, storedComparisons)
            articlesPassedComparisons ==
                checkPassingComparisons(db, feedId, passingComparisons,
                                        seenArticles, storedComparisons)
            db1 == IF Len(newArticles) > 0
                   THEN storeArticles(db, feedId, newArticles, storedComparisons, FALSE)
                   ELSE db
            db2 == IF Len(articlesPassedComparisons) > 0
                   THEN storeArticles(db1, feedId, articlesPassedComparisons,
                                      storedComparisons, TRUE)
                   ELSE db1
            unstoredComparisons == UnstoredFieldsOf(comparisonStorageResults)
            db3 == IF Len(unstoredComparisons) > 0
                   THEN storeArticles(db2, feedId, articles, unstoredComparisons, TRUE)
                   ELSE db2
            skipIdInserts ==
                (IF Len(articlesPassedComparisons) > 0
                 THEN storeArticlesInserts(feedId, articlesPassedComparisons,
                                           storedComparisons, TRUE)
                 ELSE {})
                \cup
                (IF Len(unstoredComparisons) > 0
                 THEN storeArticlesInserts(feedId, articles, unstoredComparisons, TRUE)
                 ELSE {})
            articlesPreCheck == Reverse(articlesPastBlocks \o articlesPassedComparisons)
            articlesPostDateCheck ==
                filterArticlesBasedOnDateChecks(articlesPreCheck, options.dateChecks)
        IN  [kind |-> "pass", allArticles |-> articles,
             articlesToDeliver |-> articlesPostDateCheck,
             newArticles |-> newArticles,
             seenArticles |-> seenArticles,
             articlesPastBlocks |-> articlesPastBlocks,
             articlesPassedComparisons |-> articlesPassedComparisons,
             skipIdInserts |-> skipIdInserts,
             db |-> db3]

\* A fault: the store raises err inside the transaction of the call-th
\* storeArticles call of the pass (1: new articles or seed, 2: passed
\* articles, 3: activation).
NoFault == [call |-> 0, err |-> NoError]

Faults == {NoFault} \cup [call : 1..3, err : RaisedErrors]

\* The handler when the store raises: the reads come before the writes, so
\* the lists are those of the undisturbed pass; an error that storeArticles
\* rethrows ends the handler at that call and nothing is returned.
\* The next storeArticles call of a pass: it is made when no earlier call
\* has thrown and the pass has rows for it.
thenStoreArticles(before, feedId, call, needed, articles, comparisonFields, skipIdStorage, fault) ==
    IF before.error = NoError /\ needed
    THEN LET raised == IF fault.call = call THEN fault.err ELSE NoError
             after == storeArticlesOutcome(before.db, feedId, articles,
                                           comparisonFields, skipIdStorage, raised)
         IN  [db |-> after.db, error |-> after.error,
              raised |-> IF raised = NoError THEN before.raised ELSE fault]
    ELSE before

\* What the handler hands back: nothing is returned when a call has thrown.
raisingResult(plan, outcome) ==
    [plan |-> [plan EXCEPT !.db = outcome.db,
                           !.articlesToDeliver =
                               IF outcome.error = NoError THEN @ ELSE <<>>],
     raised |-> outcome.raised,
     error |-> outcome.error]

storeStagesOfPass(plan, db, feedId, storedComparisons, unstoredComparisons, fault) ==
    raisingResult(plan,
        thenStoreArticles(
            thenStoreArticles(
                thenStoreArticles([db |-> db, error |-> NoError, raised |-> NoFault],
                    feedId, 1, Len(plan.newArticles) > 0,
                    plan.newArticles, storedComparisons, FALSE, fault),
                feedId, 2, Len(plan.articlesPassedComparisons) > 0,
                plan.articlesPassedComparisons, storedComparisons, TRUE, fault),
            feedId, 3, Len(unstoredComparisons) > 0,
            plan.allArticles, unstoredComparisons, TRUE, fault))

storeStagesOfResults(plan, db, feedId, comparisonStorageResults, fault) ==
    storeStagesOfPass(plan, db, feedId, StoredFieldsOf(comparisonStorageResults),
                      UnstoredFieldsOf(comparisonStorageResults), fault)

storeStagesRaising(plan, db, feedId, options, fault) ==
    IF plan.kind = "empty"
    THEN raisingResult(plan, [db |-> db, error |-> NoError, raised |-> NoFault])
    ELSE IF plan.kind = "seed"
    THEN raisingResult(plan,
             thenStoreArticles([db |-> db, error |-> NoError, raised |-> NoFault],
                 feedId, 1, TRUE, plan.allArticles,
                 options.blockingComparisons \o options.passingComparisons,
                 FALSE, fault))
    ELSE storeStagesOfResults(plan, db, feedId,
             areComparisonsStored(db, feedId,
                 options.blockingComparisons \o options.passingComparisons),
             fault)

getArticlesToDeliverFromXmlRaising(db, feedId, feedXmlBody, options, fault) ==
    storeStagesRaising(getArticlesToDeliverFromXml(db, feedId, feedXmlBody, options),
                       db, feedId, options, fault)

\* ------------------------------------------------------ cache and fetcher
\* expSeconds of setFeedArticlesInCache and the seconds of
\* refreshFeedArticlesCacheExpiration: 60 * 5 in both.
SetExpSeconds == 300

RefreshExpSeconds == 300

\* The clock of the cache store advances in steps of TickSeconds.
TickSeconds == 150

\* A URL: its origin and its pathname.
Urls == {[origin |-> "https://site.example", pathname |-> p] : p \in {"/blog", "/rss.xml"}}

NoUrl == [origin |-> "", pathname |-> ""]

\* requestLookupDetails: undefined, or a key and the URL to fetch instead.
NoLookupDetails == [defined |-> FALSE, key |-> "", url |-> NoUrl]

LookupDetails ==
    {NoLookupDetails,
     [defined |-> TRUE, key |-> "lookup1",
      url |-> [origin |-> "https://site.example", pathname |-> "/rss.xml"]]}

NoFormatOptions ==
    [dateFormat |-> 0, dateLocale |-> 0, dateTimezone |-> 0, disableImageLinkPreviews |-> 0]

FetchOptions ==
    [formatOptions : {NoFormatOptions}, externalFeedProperties : {<<>>},
     requestLookupDetails : LookupDetails]

\* What the Fetcher can hand back: no body (the request is pending), a
\* feed with its items, or an HTML page with or without a link of type
\* application/rss+xml, whose href is site-relative (starts with "/") or
\* absolute.
NoHref == [present |-> FALSE, startsWithSlash |-> FALSE, url |-> NoUrl]

RelativeHref(pathname) ==
    [present |-> TRUE, startsWithSlash |-> TRUE,
     url |-> [origin |-> "", pathname |-> pathname]]

NoBody == [kind |-> "none", items |-> <<>>, href |-> NoHref]

FeedBodies ==
    {[kind |-> "feed", items |-> xml, href |-> NoHref] :
        xml \in {<<>>, <<[guid |-> 1, title |-> 1, description |-> 0]>>}}

HtmlBodies ==
    {[kind |-> "html", items |-> <<>>, href |-> h] : h \in {NoHref, RelativeHref("/rss.xml")}}

Bodies == {NoBody} \cup FeedBodies \cup HtmlBodies

InvalidFeedException == [name |-> "InvalidFeedException", code |-> ""]

\* XmlParsedArticlesOutput, and the null that stands for no output.
NoOutput == [isNull |-> TRUE, articles |-> <<>>]

Output(articles) == [isNull |-> FALSE, articles |-> articles]

\* The value undefined of a member that has none.
Undefined == 0 - 1

\* A JavaScript object as the caller wrote it: its members in insertion
\* order. A read of a member that the object does not have gives undefined.
hasMember(object, name) == \E i \in 1..Len(object) : object[i][1] = name

Get(object, name) ==
    IF hasMember(object, name)
    THEN object[CHOOSE i \in 1..Len(object) : object[i][1] = name][2]
    ELSE Undefined

\* JSON.stringify of a list of named members: a member whose value is
\* undefined is left out, the others keep their order.
JsonStringify(members) ==
    <<"json", SelectSeq(members, LAMBDA member : member[2] # Undefined)>>

\* The falsy values: undefined, and the empty string, 0 and false, which the
\* model writes 0.
Falsy(v) == v = 0 \/ v = Undefined

OrUndefinedKept(v) == v

\* value || undefined
OrUndefined(v) == IF Falsy(v) THEN Undefined ELSE v

\* The key: the options are normalised (a falsy format option reads as
\* undefined, formatOptions is deleted when all of its fields are undefined,
\* externalFeedProperties when it is empty, requestLookupDetails keeps its
\* key only), serialised with the url and hashed.
calculateCacheKeyForArticles(url, options) ==
    LET formatOptions ==
            JsonStringify(
                <<<<"dateFormat", OrUndefined(options.formatOptions.dateFormat)>>,
                  <<"dateLocale", OrUndefined(options.formatOptions.dateLocale)>>,
                  <<"dateTimezone", OrUndefined(options.formatOptions.dateTimezone)>>,
                  <<"disableImageLinkPreviews",
                    OrUndefined(options.formatOptions.disableImageLinkPreviews)>>>>)
        normalizedOptions ==
            (IF formatOptions[2] = <<>> THEN <<>>
             ELSE <<<<"formatOptions", formatOptions>>>>)
            \o (IF Len(options.externalFeedProperties) = 0 THEN <<>>
                ELSE <<<<"externalFeedProperties", options.externalFeedProperties>>>>)
            \o (IF ~options.requestLookupDetails.defined THEN <<>>
                ELSE <<<<"requestLookupDetails",
                         <<"json", <<<<"key", options.requestLookupDetails.key>>>>>>>>>>)
    IN  <<"articles:com:",
          Sha1Hex(<<"json", <<<<"url", url>>, <<"options", <<"json", normalizedOptions>>>>>>>>)>>

\* The {url, options} the callers ask for: each URL on its own, and the
\* page through lookup details that name the feed URL to fetch.
FetchRequests ==
    {r \in [url : Urls, options : FetchOptions] :
        r.options.requestLookupDetails.defined => r.url.pathname = "/blog"}

\* The cache store: a function from the keys it holds to their entries.
EmptyCache == [key \in {} |-> [body |-> <<>>, ttl |-> 0]]

cacheExists(cache, key) == key \in DOMAIN cache

\* get: the body, or nothing.
cacheGet(cache, key) == IF key \in DOMAIN cache THEN cache[key].body ELSE <<>>

\* set: the entry lives expSeconds, or as long as the entry it replaces
\* still had to live when useOldTTL is set.
cacheSet(cache, key, body, expSeconds, useOldTTL) ==
    [k \in DOMAIN cache \cup {key} |->
        IF k # key THEN cache[k]
        ELSE [body |-> body,
              ttl |-> IF useOldTTL /\ key \in DOMAIN cache THEN cache[key].ttl
                      ELSE expSeconds]]

cacheSetExpire(cache, key, seconds) ==
    IF key \in DOMAIN cache THEN [cache EXCEPT ![key].ttl = seconds] ELSE cache

\* The entries after `seconds` have gone by.
Elapse(cache, seconds) ==
    [key \in {k \in DOMAIN cache : cache[k].ttl > seconds} |->
        [cache[key] EXCEPT !.ttl = @ - seconds]]

\* deflate and base64 of the JSON text, and back.
Deflate(jsonBody) == <<"base64", <<"deflate", jsonBody>>>>

Inflate(compressed) == compressed[2][2]

\* JSON.stringify of an XmlParsedArticlesOutput: the members of flattened
\* are strings and are all written; a date of raw that is undefined is
\* left out.
JsonStringifyArticle(article) ==
    <<"json",
      <<<<"flattened",
          <<"json", <<<<"id", article.flattened.id>>,
                      <<"idHash", article.flattened.idHash>>,
                      <<"title", article.flattened.title>>,
                      <<"description", article.flattened.description>>>>>>>>,
        <<"raw", JsonStringify(<<<<"date", article.raw.date>>,
                                 <<"pubdate", article.raw.pubdate>>>>)>>>>>>

JsonStringifyOutput(data) ==
    <<"json",
      <<<<"articles",
          [i \in 1..Len(data.articles) |-> JsonStringifyArticle(data.articles[i])]>>>>>>

JsonParseArticle(jsonText) ==
    LET flattened == Get(jsonText[2], "flattened")[2]
        raw == Get(jsonText[2], "raw")[2]
    IN  [flattened |-> [id |-> Get(flattened, "id"),
                        idHash |-> Get(flattened, "idHash"),
                        title |-> Get(flattened, "title"),
                        description |-> Get(flattened, "description")],
         raw |-> [date |-> Get(raw, "date"), pubdate |-> Get(raw, "pubdate")]]

\* Variant: the dates of raw are not read back.
JsonParseDatesLost(jsonText) ==
    LET articles == Get(jsonText[2], "articles")
    IN  Output([i \in 1..Len(articles) |->
                  [JsonParseArticle(articles[i]) EXCEPT !.raw = [date |-> Undefined, pubdate |-> Undefined]]])

\* JSON.parse of the text, read as an XmlParsedArticlesOutput: a member
\* that the text does not have reads as undefined.
JsonParse(jsonText) ==
    LET articles == Get(jsonText[2], "articles")
    IN  Output([i \in 1..Len(articles) |-> JsonParseArticle(articles[i])])

getFeedArticlesFromCache(cache, url, options) ==
    LET compressedValue == cacheGet(cache, calculateCacheKeyForArticles(url, options))
    IN  IF compressedValue = <<>> THEN NoOutput
        ELSE JsonParse(Inflate(compressedValue))

\* Variant: the entry is written to live ten times as long.
setFeedArticlesInCacheLonger(cache, url, options, data, useOldTTL) ==
    cacheSet(cache, calculateCacheKeyForArticles(url, options),
             Deflate(JsonStringifyOutput(data)), 10 * SetExpSeconds, useOldTTL)

\* Variant: nothing is written.
setFeedArticlesInCacheDropped(cache, url, options, data, useOldTTL) == cache

setFeedArticlesInCache(cache, url, options, data, useOldTTL) ==
    cacheSet(cache, calculateCacheKeyForArticles(url, options),
             Deflate(JsonStringifyOutput(data)), SetExpSeconds, useOldTTL)

\* Variant: the expiration is left as it is.
refreshFeedArticlesCacheExpirationSkipped(cache, url, options) == cache

refreshFeedArticlesCacheExpiration(cache, url, options) ==
    cacheSetExpire(cache, calculateCacheKeyForArticles(url, options), RefreshExpSeconds)

\* del: the entry goes.
cacheDel(cache, key) == [k \in DOMAIN cache \ {key} |-> cache[k]]

doFeedArticlesExistInCache(cache, url, options) ==
    cacheExists(cache, calculateCacheKeyForArticles(url, options))

\* Variant: the entry is left in place.
invalidateFeedArticlesCacheKept(cache, url, options) == cache

invalidateFeedArticlesCache(cache, url, options) ==
    cacheDel(cache, calculateCacheKeyForArticles(url, options))

\* Fetcher.fetch: the response for the URL.
fetcherFetch(bodies, url) == bodies[url]

\* An error of the feed parser, with its message.
ParserError(message) == [name |-> "Error", code |-> "", message |-> message]

StartsWith(text, prefix) ==
    Len(text) >= Len(prefix) /\ SubSeq(text, 1, Len(prefix)) = prefix

\* Variant: every parser error is handed on as it is.
onParserErrorVerbatim(err) == err

\* The "error" handler of the parser: what the promise is rejected with.
onParserError(err) ==
    IF err.message = "Not a feed" \/ StartsWith(err.message, "Unexpected end")
    THEN InvalidFeedException
    ELSE err

\* The error the parser emits for a body that is not a feed: "Not a feed"
\* for a page, a syntax error for a feed that is malformed.
parserErrorOf(body) ==
    IF body.kind = "malformed" THEN ParserError("Unexpected close tag")
    ELSE ParserError("Not a feed")

\* getArticlesFromXml on a response body: the articles of a feed, or the
\* error the promise is rejected with.
parseResponseBody(body) ==
    IF body.kind = "feed"
    THEN [error |-> NoError, articles |-> getArticlesFromXml(body.items)]
    ELSE [error |-> onParserError(parserErrorOf(body)), articles |-> <<>>]

\* Variant: no link is ever found.
extractRssFromHtmlNone(body) == NoHref

extractRssFromHtml(body) == IF body.kind = "html" THEN body.href ELSE NoHref

\* Variant: the fallback asks for the page again.
resolveRssUrlSame(url, rssUrl) == url

\* The URL the fallback asks for: an href that starts with "/" follows the
\* origin of the page, any other href is the URL.
resolveRssUrl(url, rssUrl) ==
    IF rssUrl.startsWithSlash
    THEN [origin |-> url.origin, pathname |-> rssUrl.url.pathname]
    ELSE rssUrl.url

\* attemptedToResolveFromHtml of a result that does not set it.
NotReported == "undefined"

\* What a fetchFeedArticles call leaves and hands back: the cache, the
\* Fetcher calls it made, the exception it raised or its {output, url}.
RECURSIVE fetchFeedArticles(_, _, _, _, _)
fetchFeedArticles(cache, bodies, url, options, findRssFromHtml) ==
    LET cachedArticles == getFeedArticlesFromCache(cache, url, options)
        target == IF options.requestLookupDetails.defined
                     /\ options.requestLookupDetails.url # NoUrl
                  THEN options.requestLookupDetails.url
                  ELSE url
        response == fetcherFetch(bodies, target)
        fromXml == parseResponseBody(response)
        rssUrl == extractRssFromHtml(response)
    IN
    IF ~cachedArticles.isNull THEN
        [cache |-> refreshFeedArticlesCacheExpiration(cache, url, options),
         fetched |-> <<>>, thrown |-> NoError, output |-> cachedArticles, url |-> url,
         attemptedToResolveFromHtml |-> NotReported]
    ELSE IF response.kind = "none" THEN
        [cache |-> cache, fetched |-> <<target>>, thrown |-> NoError,
         output |-> NoOutput, url |-> url, attemptedToResolveFromHtml |-> NotReported]
    ELSE IF fromXml.error = NoError THEN
        [cache |-> setFeedArticlesInCache(cache, url, options,
                                          Output(fromXml.articles), FALSE),
         fetched |-> <<target>>, thrown |-> NoError,
         output |-> Output(fromXml.articles), url |-> url,
         attemptedToResolveFromHtml |-> NotReported]
    ELSE IF fromXml.error = InvalidFeedException /\ findRssFromHtml /\ rssUrl.present THEN
        LET second == fetchFeedArticles(cache, bodies, resolveRssUrl(url, rssUrl),
                                        options, FALSE)
        IN  [second EXCEPT !.fetched = <<target>> \o @]
    ELSE
        [cache |-> cache, fetched |-> <<target>>, thrown |-> fromXml.error,
         output |-> NoOutput, url |-> url, attemptedToResolveFromHtml |-> NotReported]

\* ------------------------------------------------------- fetchFeedArticle
PendingError(url) ==
    [name |-> "Error", code |-> "",
     message |-> "Request for " \o url.origin \o url.pathname \o " is still pending"]

FeedArticleNotFoundException == [name |-> "FeedArticleNotFoundException", code |-> ""]

\* The article a call hands back, and the null it hands back for none.
NoArticle == [isNull |-> TRUE, article |-> <<>>]

FoundArticle(article) == [isNull |-> FALSE, article |-> article]

\* articles.find(article => article.flattened.id === id)
findById(articles, id) ==
    LET matches == {i \in 1..Len(articles) : articles[i].flattened.id = id}
    IN  IF matches = {} THEN NoArticle
        ELSE FoundArticle(articles[CHOOSE i \in matches : \A j \in matches : i <= j])

fetchFeedArticle(cache, bodies, url, id, options) ==
    LET fetch == fetchFeedArticles(cache, bodies, url, options, FALSE)
        found == findById(fetch.output.articles, id)
        ends(thrown, article) ==
            [cache |-> fetch.cache, fetched |-> fetch.fetched, thrown |-> thrown,
             article |-> article]
    IN  IF fetch.thrown # NoError THEN ends(fetch.thrown, NoArticle)
        ELSE IF fetch.output.isNull THEN ends(PendingError(url), NoArticle)
        ELSE IF Len(fetch.output.articles) = 0 THEN ends(NoError, NoArticle)
        ELSE IF found.isNull THEN ends(FeedArticleNotFoundException, NoArticle)
        ELSE ends(NoError, found)

\* ------------------------------------------------ findOrFetchFeedArticles
\* The text of a URL, and the URL of a text: the origin ends before the
\* first "/" after the scheme.
SchemeLen == 8

Href(url) == url.origin \o url.pathname

UrlOf(text) ==
    LET slashes == {i \in (SchemeLen + 1)..Len(text) : SubSeq(text, i, i) = "/"}
        split == IF slashes = {} THEN Len(text) + 1
                 ELSE CHOOSE i \in slashes : \A j \in slashes : i <= j
    IN  [origin |-> SubSeq(text, 1, split - 1),
         pathname |-> IF split > Len(text) THEN "/" ELSE SubSeq(text, split, Len(text))]

EndsWith(text, suffix) ==
    Len(text) >= Len(suffix)
    /\ SubSeq(text, Len(text) - Len(suffix) + 1, Len(text)) = suffix

\* origin + pathname without a final "/".
baseOf(url) ==
    IF EndsWith(Href(url), "/")
    THEN SubSeq(Href(url), 1, Len(Href(url)) - 1)
    ELSE Href(url)

\* Variant: the "/rss" probe is made twice.
newUrlsRssTwice(url) == <<baseOf(url) \o "/feed", baseOf(url) \o "/rss", baseOf(url) \o "/rss">>

\* Variant: "/rss" is tried before "/feed".
newUrlsRssFirst(url) == <<baseOf(url) \o "/rss", baseOf(url) \o "/feed">>

newUrls(url) == <<baseOf(url) \o "/feed", baseOf(url) \o "/rss">>

isInvalidFeedException(err) == err.name = "InvalidFeedException"

\* Variant: the error of the last probe is raised.
thrownAfterProbesLast(err, subError) == [attempt |-> 3, error |-> subError]

\* What is raised when no probe returned: the error caught from the first
\* attempt.
thrownAfterProbes(err, subError) == [attempt |-> 1, error |-> err]

\* The pages the service is asked for and the URLs probed for them.
FindOrigin == "https://blog.example"

OriginalUrls == {[origin |-> FindOrigin, pathname |-> p] : p \in {"/news", "/news/"}}

FindUrls ==
    OriginalUrls \cup {UrlOf(newUrls(url)[i]) : url \in OriginalUrls, i \in 1..2}

\* What the Fetcher can hand back for them: no body, a feed, a page that
\* links to "/news/rss", a feed that is malformed.
FindBodies ==
    {NoBody,
     [kind |-> "feed", items |-> <<[guid |-> 1, title |-> 1, description |-> 0]>>,
      href |-> NoHref],
     [kind |-> "html", items |-> <<>>, href |-> RelativeHref("/news/rss")],
     [kind |-> "malformed", items |-> <<>>, href |-> NoHref]}

\* The loop over the probes from probe i on, after the earlier ones raised:
\* the first probe that returns is the result, and when none is left the
\* error of the first attempt is raised.
RECURSIVE probeFrom(_, _, _, _, _, _, _, _)
probeFrom(cache, bodies, probes, i, options, findRssFromHtml, first, sofar) ==
    IF i > Len(probes)
    THEN LET raised == thrownAfterProbes(first.thrown, sofar.lastError)
         IN  [cache |-> cache, attempts |-> sofar.attempts, fetched |-> sofar.fetched,
              thrown |-> raised.error, thrownBy |-> raised.attempt,
              output |-> NoOutput, url |-> NoUrl,
              attemptedToResolveFromHtml |-> NotReported]
    ELSE LET newUrl == UrlOf(probes[i])
             probe == fetchFeedArticles(cache, bodies, newUrl, options, findRssFromHtml)
             attempts == Append(sofar.attempts, newUrl)
             fetched == sofar.fetched \o probe.fetched
         IN  IF probe.thrown = NoError
             THEN [cache |-> probe.cache, attempts |-> attempts, fetched |-> fetched,
                   thrown |-> NoError, thrownBy |-> 0,
                   output |-> probe.output, url |-> probe.url,
                   attemptedToResolveFromHtml |-> probe.attemptedToResolveFromHtml]
             ELSE probeFrom(probe.cache, bodies, probes, i + 1, options, findRssFromHtml,
                            first, [attempts |-> attempts, fetched |-> fetched,
                                    lastError |-> probe.thrown])

findOrFetchFeedArticles(cache, bodies, originalUrl, options, findRssFromHtml) ==
    LET first == fetchFeedArticles(cache, bodies, originalUrl, options, findRssFromHtml)
    IN  IF first.thrown = NoError \/ ~isInvalidFeedException(first.thrown)
        THEN [cache |-> first.cache, attempts |-> <<originalUrl>>,
              fetched |-> first.fetched, thrown |-> first.thrown,
              thrownBy |-> IF first.thrown = NoError THEN 0 ELSE 1,
              output |-> first.output, url |-> first.url,
              attemptedToResolveFromHtml |-> first.attemptedToResolveFromHtml]
        ELSE probeFrom(first.cache, bodies, newUrls(originalUrl), 1, options,
                       findRssFromHtml, first,
                       [attempts |-> <<originalUrl>>, fetched |-> first.fetched,
                        lastError |-> first.thrown])

\* No body is known for any URL.
NothingUpstream == [url \in Urls |-> NoBody]

\* No call of the cache layer has been made since the clock or the
\* upstream changed.
NoServiceCall ==
    [op |-> "none", url |-> NoUrl, options |-> [formatOptions |-> NoFormatOptions, externalFeedProperties |-> <<>>, requestLookupDetails |-> NoLookupDetails],
     findRssFromHtml |-> FALSE, useOldTTL |-> FALSE, before |-> EmptyCache,
     fetched |-> <<>>, thrown |-> NoError, output |-> NoOutput, returnedUrl |-> NoUrl,
     attemptedToResolveFromHtml |-> NotReported, id |-> 0, article |-> NoArticle,
     exists |-> FALSE]

\* ------------------------------------------------- the parse as a process
\* options?.timeout || 10000, in milliseconds; the clock of the model
\* advances in steps of ClockStepMs up to MaxElapsedMs.
DefaultTimeoutMs == 10000

ClockStepMs == 5000

MaxElapsedMs == 15000

timeoutOf(options) == IF Falsy(options.timeout) THEN DefaultTimeoutMs ELSE options.timeout

\* Content injection runs for a batch of at most this many articles.
MaxArticleInjectionArticleCount == 26

\* chunkArray(mappedArticles, 25)
InjectionChunkSize == 25

Min(a, b) == IF a <= b THEN a ELSE b

\* chunkArray: the array cut into consecutive slices of `size`, the last
\* one shorter when the length is not a multiple of it.
chunkArray(array, size) ==
    [k \in 1..((Len(array) + size - 1) \div size) |->
        SubSeq(array, (k - 1) * size + 1, Min(k * size, Len(array)))]

\* The ID resolver: the candidates in priority order; a candidate survives
\* when it is present and non-empty on every recorded article.
NoIdType == ""

survives(rawArticles, candidate) ==
    \A i \in 1..Len(rawArticles) : rawArticles[i][candidate] # NoValue

getIDType(rawArticles) ==
    IF survives(rawArticles, "guid") THEN "guid"
    ELSE IF survives(rawArticles, "title") THEN "title"
    ELSE NoIdType

getIDTypeValue(rawArticle, idType) == rawArticle[idType]

\* The hasher of the module, createHash("sha1"): what it has been fed. A
\* digest is the SHA-1 of everything the hasher was fed.
digestHex(fed) == IF Len(fed) = 1 THEN Sha1Hex(fed[1]) ELSE <<"sha1", fed>>

\* Variant: update and digest on the hasher of the module itself.
hashOnCopyShared(shared, value) ==
    [shared |-> Append(shared, value), hex |-> digestHex(Append(shared, value))]

\* sha1.copy().update(value).digest("hex"): the copy is fed, the hasher of
\* the module is left as it was.
hashOnCopy(shared, value) ==
    [shared |-> shared, hex |-> digestHex(Append(shared, value))]

\* The articles of the "end" handler: flattened with id and idHash, the
\* hasher of the module going from one article to the next.
RECURSIVE mapArticles(_, _, _)
mapArticles(rawArticles, idType, shared) ==
    IF Len(rawArticles) = 0 THEN [articles |-> <<>>, shared |-> shared]
    ELSE LET id == getIDTypeValue(Head(rawArticles), idType)
             hashed == hashOnCopy(shared, id)
             rest == mapArticles(Tail(rawArticles), idType, hashed.shared)
         IN  [articles |->
                  <<[BuildArticle(Head(rawArticles)) EXCEPT
                        !.flattened.id = id, !.flattened.idHash = hashed.hex]>>
                  \o rest.articles,
              shared |-> rest.shared]

MissingIdHashError ==
    [name |-> "Error", code |-> "", message |-> "Some articles are missing id hash"]

\* !idHash for some article: a hex digest that is the empty string.
missingIdHash(articles) ==
    \E i \in 1..Len(articles) : articles[i].flattened.idHash = <<>>

FeedParseTimeoutException == [name |-> "FeedParseTimeoutException", code |-> ""]

NoIdTypeError ==
    [name |-> "Error", code |-> "",
     message |-> "No ID type found when parsing articles for feed"]

\* The messages of the errors the parser emits.
ParserMessages ==
    {"Not a feed", "Not a feed.", "not a feed", "Unexpected end",
     "Unexpected end of file", "An Unexpected end", "Unexpected close tag"}

\* A feed of n items with ids of their own.
ManyItems(n) == [i \in 1..n |-> [guid |-> i, title |-> 1, description |-> 0]]

\* A parse: the items the parser will emit (an item can lack its guid, or
\* its guid and its title), the error it will emit ("" for none), whether
\* the resolver finds an ID type in the recorded articles (never with no
\* article recorded), whether the flattened articles carry a content
\* injection, and the timeout option (0 for none).
ParseInputs ==
    {in \in [items : {<<>>,
                      <<[guid |-> 1, title |-> 1, description |-> 0]>>,
                      <<[guid |-> 1, title |-> 1, description |-> 0],
                        [guid |-> 2, title |-> 0, description |-> 1]>>,
                      <<[guid |-> 0, title |-> 0, description |-> 1]>>,
                      <<[guid |-> 2, title |-> 1, description |-> 0],
                        [guid |-> 0, title |-> 1, description |-> 1]>>,
                      ManyItems(MaxArticleInjectionArticleCount),
                      ManyItems(MaxArticleInjectionArticleCount + 1)},
             failure : {""} \cup ParserMessages,
             idType : BOOLEAN,
             hasArticleContentInjection : BOOLEAN,
             options : [timeout : {0, ClockStepMs}]] :
        /\ in.idType = (in.items # <<>> /\ getIDType(in.items) # NoIdType)
        /\ in.items = <<>> => ~in.hasArticleContentInjection
        /\ Len(in.items) >= MaxArticleInjectionArticleCount
              => in.failure \in {"", "Not a feed"} /\ in.options.timeout = 0}

NoParseInput ==
    [items |-> <<>>, failure |-> "", idType |-> FALSE,
     hasArticleContentInjection |-> FALSE, options |-> [timeout |-> 0]]

\* No getArticlesFromXml call is under way.
NoParse ==
    [pc |-> "idle", input |-> NoParseInput, rawArticles |-> <<>>, timer |-> "none",
     elapsedMs |-> 0, settled |-> "pending", settledBy |-> "none", settledAtMs |-> 0,
     error |-> NoError, articles |-> <<>>, flattenCalls |-> 0, injectCalls |-> 0,
     startedAfterTimeout |-> 0, sha1 |-> <<>>, mappedArticles |-> <<>>, chunk |-> 0,
     injectReturns |-> 0]

\* resolve and reject: the first of them settles the promise, the later
\* ones do nothing.
settle(p, by, outcome, error, articles) ==
    IF p.settled # "pending" THEN p
    ELSE [p EXCEPT !.settled = outcome, !.settledBy = by, !.settledAtMs = p.elapsedMs,
                   !.error = error, !.articles = articles]

\* clearTimeout: a timer that has not fired will not fire.
clearTimeout(p) == IF p.timer = "armed" THEN [p EXCEPT !.timer = "cleared"] ELSE p

\* Variant: the ID type is looked for before the articles are counted.
endOfParseIdTypeFirst(rawArticles, idType) ==
    IF ~idType THEN [outcome |-> "rejected", error |-> NoIdTypeError]
    ELSE IF Len(rawArticles) = 0 THEN [outcome |-> "resolved", error |-> NoError]
    ELSE [outcome |-> "mapping", error |-> NoError]

\* The start of the "end" handler: no article resolves with no article,
\* no ID type rejects, anything else goes on to flatten the articles.
endOfParse(rawArticles, idType) ==
    IF Len(rawArticles) = 0 THEN [outcome |-> "resolved", error |-> NoError]
    ELSE IF ~idType THEN [outcome |-> "rejected", error |-> NoIdTypeError]
    ELSE [outcome |-> "mapping", error |-> NoError]

\* Calls started after the timer fired.
startedLate(p, calls) == IF p.timer = "fired" THEN calls ELSE 0

\* Variant: the closures of all the articles are called with the first
\* chunk.
startChunkOfAll(p, k) ==
    LET size == IF k = 1 THEN Len(p.mappedArticles) ELSE 0
    IN  [p EXCEPT !.pc = "injecting", !.chunk = k, !.injectCalls = @ + size,
                  !.startedAfterTimeout = @ + startedLate(p, size)]

\* The injection closures of chunk k are all called at once.
startChunk(p, k) ==
    LET size == Len(chunkArray(p.mappedArticles, InjectionChunkSize)[k])
    IN  [p EXCEPT !.pc = "injecting", !.chunk = k, !.injectCalls = @ + size,
                  !.startedAfterTimeout = @ + startedLate(p, size)]

\* ---------------------------------------------------------------- actions
Database == [rows |-> fieldRows, comparisons |-> comparisons]

\* No call has been made since the feed or its options changed.
NoCall ==
    [kind |-> "none", feedId |-> "feed1", allArticles |-> <<>>,
     articlesToDeliver |-> <<>>, newArticles |-> <<>>, seenArticles |-> <<>>,
     articlesPastBlocks |-> <<>>, articlesPassedComparisons |-> <<>>,
     skipIdInserts |-> {}, prior |-> [rows |-> {}, comparisons |-> {}],
     fault |-> NoFault, error |-> NoError, deleted |-> FALSE]

\* The callers that can be inside getArticlesToDeliverFromXml at once.
Invocations == {"first", "second"}

\* An invocation that has not been made: pc is the await it stands at, the
\* other fields are the locals of the handler.
IdleInvocation ==
    [pc |-> "idle", feedId |-> "feed1", kind |-> "none", newArticles |-> <<>>,
     storedComparisons |-> <<>>, unstoredComparisons |-> <<>>,
     articlesPastBlocks |-> <<>>, articlesPassedComparisons |-> <<>>,
     articlesToDeliver |-> <<>>]

\* No concurrent invocation is under way.
NoInvocations == [i \in Invocations |-> IdleInvocation]

\* The date filter has not been called.
NoDateCall == [called |-> FALSE, articles |-> <<>>, dateChecks |-> NoDateChecks, returned |-> <<>>]

Init ==
    /\ fieldRows = {}
    /\ comparisons = {}
    /\ feedXml = [f \in FeedIds |-> <<>>]
    /\ feedOptions = [f \in FeedIds |->
                         [blockingComparisons |-> <<>>, passingComparisons |-> <<>>,
                          dateChecks |-> NoDateChecks]]
    /\ last = NoCall
    /\ invocation = NoInvocations
    /\ dateCall = NoDateCall
    /\ cacheEntries = EmptyCache
    /\ upstream = NothingUpstream
    /\ serviceCall = NoServiceCall
    /\ parse = NoParse

\* The feed publishes an item: it is listed first in the XML.
PublishItem(f, item) ==
    /\ Len(feedXml[f]) < MaxBatch
    /\ feedXml' = [feedXml EXCEPT ![f] = <<item>> \o @]
    /\ last' = NoCall
    /\ UNCHANGED <<fieldRows, comparisons, feedOptions>>
    /\ UNCHANGED offPlanVars

\* The feed changes one field of an item it lists.
EditItem(f, i, field, value) ==
    /\ i \in 1..Len(feedXml[f])
    /\ feedXml[f][i][field] # value
    /\ feedXml' = [feedXml EXCEPT ![f][i][field] = value]
    /\ last' = NoCall
    /\ UNCHANGED <<fieldRows, comparisons, feedOptions>>
    /\ UNCHANGED offPlanVars

\* The feed drops its oldest item.
DropItem(f) ==
    /\ Len(feedXml[f]) > 0
    /\ feedXml' = [feedXml EXCEPT ![f] = SubSeq(@, 1, Len(@) - 1)]
    /\ last' = NoCall
    /\ UNCHANGED <<fieldRows, comparisons, feedOptions>>
    /\ UNCHANGED offPlanVars

\* The user feed is reconfigured: one option at a time.
SetBlockingComparisons(f, blocking) ==
    /\ feedOptions[f].blockingComparisons # blocking
    /\ feedOptions' = [feedOptions EXCEPT ![f].blockingComparisons = blocking]
    /\ last' = NoCall
    /\ UNCHANGED <<fieldRows, comparisons, feedXml>>
    /\ UNCHANGED offPlanVars

SetPassingComparisons(f, passing) ==
    /\ feedOptions[f].passingComparisons # passing
    /\ feedOptions' = [feedOptions EXCEPT ![f].passingComparisons = passing]
    /\ last' = NoCall
    /\ UNCHANGED <<fieldRows, comparisons, feedXml>>
    /\ UNCHANGED offPlanVars

SetDateChecks(f, dateChecks) ==
    /\ feedOptions[f].dateChecks # dateChecks
    /\ feedOptions' = [feedOptions EXCEPT ![f].dateChecks = dateChecks]
    /\ last' = NoCall
    /\ UNCHANGED <<fieldRows, comparisons, feedXml>>
    /\ UNCHANGED offPlanVars

\* The handler has finished: its writes are in the store and the call is
\* on record.
Returned(f, r, fault, error) ==
    /\ fieldRows' = r.db.rows
    /\ comparisons' = r.db.comparisons
    /\ last' = [kind |-> r.kind, feedId |-> f, allArticles |-> r.allArticles,
                articlesToDeliver |-> r.articlesToDeliver,
                newArticles |-> r.newArticles,
                seenArticles |-> r.seenArticles,
                articlesPastBlocks |-> r.articlesPastBlocks,
                articlesPassedComparisons |-> r.articlesPassedComparisons,
                skipIdInserts |-> r.skipIdInserts,
                prior |-> Database,
                fault |-> fault, error |-> error, deleted |-> FALSE]
    /\ UNCHANGED <<feedXml, feedOptions>>
    /\ UNCHANGED offPlanVars

\* One getArticlesToDeliverFromXml call on the feed's current XML.
Poll(f) ==
    Returned(f, getArticlesToDeliverFromXml(Database, f, feedXml[f], feedOptions[f]),
             NoFault, NoError)

Next ==
    \/ \E f \in FeedIds, item \in Items : PublishItem(f, item)
    \/ \E f \in FeedIds, i \in 1..MaxBatch, field \in ComparisonFields,
          value \in 0..MaxVal : EditItem(f, i, field, value)
    \/ \E f \in FeedIds : DropItem(f)
    \/ \E f \in FeedIds, blocking \in ComparisonLists :
          SetBlockingComparisons(f, blocking)
    \/ \E f \in FeedIds, passing \in ComparisonLists :
          SetPassingComparisons(f, passing)
    \/ \E f \in FeedIds, dateChecks \in DateCheckOptions : SetDateChecks(f, dateChecks)
    \/ \E f \in FeedIds : Poll(f)

Spec == Init /\ [][Next]_vars

\* The fault is on record when the call it was to hit was made.
RaisingReturned(f, r) == Returned(f, r.plan, r.raised, r.error)

\* The writes of a pass whose reads gave `plan`, the store raising `fault`.
RaisingWrites(f, plan) ==
    \E fault \in Faults :
        RaisingReturned(f, storeStagesRaising(plan, Database, f, feedOptions[f], fault))

\* One getArticlesToDeliverFromXml call during which the store may raise.
PollRaising(f) ==
    RaisingWrites(f, getArticlesToDeliverFromXml(Database, f, feedXml[f], feedOptions[f]))

\* The delivery pass over a store that can fail.
NextRaising ==
    \/ \E f \in FeedIds, item \in Items : PublishItem(f, item)
    \/ \E f \in FeedIds, i \in 1..MaxBatch, field \in ComparisonFields,
          value \in 0..MaxVal : EditItem(f, i, field, value)
    \/ \E f \in FeedIds : DropItem(f)
    \/ \E f \in FeedIds, blocking \in ComparisonLists :
          SetBlockingComparisons(f, blocking)
    \/ \E f \in FeedIds, passing \in ComparisonLists :
          SetPassingComparisons(f, passing)
    \/ \E f \in FeedIds : PollRaising(f)

SpecRaising == Init /\ [][NextRaising]_vars

\* ------------------------------------------------ concurrent invocations
\* getArticlesToDeliverFromXml step by step: one action per await, so that
\* two invocations interleave at the awaits.  The XML and the options of
\* an invocation are its arguments; the feed does not change while an
\* invocation is under way.
Quiet == \A i \in Invocations : invocation[i].pc = "idle"

ArticlesOf(i) == getArticlesFromXml(feedXml[invocation[i].feedId])

OptionsOf(i) == feedOptions[invocation[i].feedId]

\* The return: the concatenation, the reversal and the date filter.
Finish(inv, options) ==
    [inv EXCEPT !.pc = "returned",
                !.articlesToDeliver =
                    filterArticlesBasedOnDateChecks(
                        Reverse(inv.articlesPastBlocks \o inv.articlesPassedComparisons),
                        options.dateChecks)]

\* The next storeArticles call the handler awaits after `stage` of them,
\* or its return.
Advance(inv, options, stage) ==
    IF stage < 1 /\ Len(inv.newArticles) > 0 THEN [inv EXCEPT !.pc = "storeNew"]
    ELSE IF stage < 2 /\ Len(inv.articlesPassedComparisons) > 0
    THEN [inv EXCEPT !.pc = "storePassed"]
    ELSE IF stage < 3 /\ Len(inv.unstoredComparisons) > 0
    THEN [inv EXCEPT !.pc = "storeActivation"]
    ELSE Finish(inv, options)

\* await this.getArticlesFromXml
Invoke(i, f) ==
    /\ invocation[i].pc = "idle"
    /\ invocation' = [invocation EXCEPT ![i] =
           IF Len(getArticlesFromXml(feedXml[f])) = 0
           THEN [IdleInvocation EXCEPT !.pc = "returned", !.feedId = f, !.kind = "empty"]
           ELSE [IdleInvocation EXCEPT !.pc = "hasPrior", !.feedId = f]]
    /\ UNCHANGED <<planVars, dateVars, fetchVars, parseVars>>

\* await this.hasPriorArticlesStored
CheckPrior(i) ==
    /\ invocation[i].pc = "hasPrior"
    /\ invocation' = [invocation EXCEPT ![i] =
           IF ~hasPriorArticlesStored(Database, invocation[i].feedId)
           THEN [@ EXCEPT !.pc = "seed", !.kind = "seed"]
           ELSE [@ EXCEPT !.pc = "filterNew", !.kind = "pass"]]
    /\ UNCHANGED <<planVars, dateVars, fetchVars, parseVars>>

Stored(i, db, inv) ==
    /\ fieldRows' = db.rows
    /\ comparisons' = db.comparisons
    /\ invocation' = [invocation EXCEPT ![i] = inv]
    /\ UNCHANGED <<feedXml, feedOptions, last, dateVars, fetchVars, parseVars>>

\* await this.storeArticles of the seed pass, and the return
SeedStore(i) ==
    /\ invocation[i].pc = "seed"
    /\ Stored(i,
              storeArticles(Database, invocation[i].feedId, ArticlesOf(i),
                            OptionsOf(i).blockingComparisons
                                \o OptionsOf(i).passingComparisons, FALSE),
              [invocation[i] EXCEPT !.pc = "returned"])

\* await this.filterForNewArticles
FilterNew(i) ==
    /\ invocation[i].pc = "filterNew"
    /\ invocation' = [invocation EXCEPT ![i] =
           [@ EXCEPT !.pc = "compare",
                     !.newArticles =
                         filterForNewArticles(Database, invocation[i].feedId,
                                              ArticlesOf(i))]]
    /\ UNCHANGED <<planVars, dateVars, fetchVars, parseVars>>

Compared(i, inv, articles, options, results) ==
    invocation' = [invocation EXCEPT ![i] =
        Advance(
            [inv EXCEPT
                !.storedComparisons = StoredFieldsOf(results),
                !.unstoredComparisons = UnstoredFieldsOf(results),
                !.articlesPastBlocks =
                    checkBlockingComparisons(Database, inv.feedId,
                        options.blockingComparisons, inv.newArticles,
                        StoredFieldsOf(results)),
                !.articlesPassedComparisons =
                    checkPassingComparisons(Database, inv.feedId,
                        options.passingComparisons,
                        SelectSeq(articles,
                            LAMBDA article : ~\E k \in 1..Len(inv.newArticles) :
                                inv.newArticles[k].flattened.idHash
                                    = article.flattened.idHash),
                        StoredFieldsOf(results))],
            options, 0)]

\* await this.areComparisonsStored, then the two comparison checks
Compare(i) ==
    /\ invocation[i].pc = "compare"
    /\ Compared(i, invocation[i], ArticlesOf(i), OptionsOf(i),
                areComparisonsStored(Database, invocation[i].feedId,
                    OptionsOf(i).blockingComparisons \o OptionsOf(i).passingComparisons))
    /\ UNCHANGED <<planVars, dateVars, fetchVars, parseVars>>

\* await this.storeArticles(id, newArticles, ...)
StoreNew(i) ==
    /\ invocation[i].pc = "storeNew"
    /\ Stored(i,
              storeArticles(Database, invocation[i].feedId, invocation[i].newArticles,
                            invocation[i].storedComparisons, FALSE),
              Advance(invocation[i], OptionsOf(i), 1))

\* await this.storeArticles(id, articlesPassedComparisons, ...)
StorePassed(i) ==
    /\ invocation[i].pc = "storePassed"
    /\ Stored(i,
              storeArticles(Database, invocation[i].feedId,
                            invocation[i].articlesPassedComparisons,
                            invocation[i].storedComparisons, TRUE),
              Advance(invocation[i], OptionsOf(i), 2))

\* await this.storeArticles(id, articles, ...) for the unstored comparisons
StoreActivation(i) ==
    /\ invocation[i].pc = "storeActivation"
    /\ Stored(i,
              storeArticles(Database, invocation[i].feedId, ArticlesOf(i),
                            invocation[i].unstoredComparisons, TRUE),
              Advance(invocation[i], OptionsOf(i), 3))

\* The callers have their results; the next requests can come.
Settle ==
    /\ \A i \in Invocations : invocation[i].pc \in {"idle", "returned"}
    /\ \E i \in Invocations : invocation[i].pc = "returned"
    /\ invocation' = NoInvocations
    /\ UNCHANGED <<planVars, dateVars, fetchVars, parseVars>>

NextRace ==
    \/ \E f \in FeedIds, item \in Items : Quiet /\ PublishItem(f, item)
    \/ \E f \in FeedIds : Quiet /\ DropItem(f)
    \/ \E f \in FeedIds, blocking \in ComparisonLists :
          Quiet /\ SetBlockingComparisons(f, blocking)
    \/ \E f \in FeedIds, passing \in ComparisonLists :
          Quiet /\ SetPassingComparisons(f, passing)
    \/ \E i \in Invocations, f \in FeedIds : Invoke(i, f)
    \/ \E i \in Invocations : CheckPrior(i)
    \/ \E i \in Invocations : SeedStore(i)
    \/ \E i \in Invocations : FilterNew(i)
    \/ \E i \in Invocations : Compare(i)
    \/ \E i \in Invocations : StoreNew(i)
    \/ \E i \in Invocations : StorePassed(i)
    \/ \E i \in Invocations : StoreActivation(i)
    \/ Settle

SpecRace == Init /\ [][NextRace]_vars

\* ------------------------------------------------------- the date filter
\* filterArticlesBasedOnDateChecks on its own: the raw dates an article can
\* carry (0: absent or invalid; Now + 1: a date in the future), the
\* articles, and the dateChecks a caller can hand over.  hasThreshold is
\* FALSE for an absent oldArticleDateDiffMsThreshold, which reads as
\* undefined (falsy); hasReferences is FALSE for absent
\* datePlaceholderReferences.
RawDates == 0..(Now + 1)

DatedArticles ==
    {[flattened |-> [id |-> 1, idHash |-> Sha1Hex(1)], raw |-> raw] :
        raw \in [date : RawDates, pubdate : RawDates]}

DatedBatches == {<<>>} \cup {<<a>> : a \in DatedArticles}

PlaceholderLists == {<<>>, <<"pubdate">>, <<"pubdate", "date">>, <<"updated">>}

DateChecksInputs ==
    {[defined |-> FALSE, hasThreshold |-> FALSE, hasReferences |-> FALSE,
      datePlaceholderReferences |-> <<>>, oldArticleDateDiffMsThreshold |-> 0]}
    \cup
    {[defined |-> TRUE, hasThreshold |-> t >= 0, hasReferences |-> refs # <<"none">>,
      datePlaceholderReferences |-> IF refs = <<"none">> THEN <<>> ELSE refs,
      oldArticleDateDiffMsThreshold |-> IF t >= 0 THEN t ELSE 0] :
        t \in -1..(MaxThreshold + 1), refs \in PlaceholderLists \cup {<<"none">>}}

\* The caller holds a list of up to two articles and its dateChecks.
InitDate ==
    /\ fieldRows = {}
    /\ comparisons = {}
    /\ feedXml = [f \in FeedIds |-> <<>>]
    /\ feedOptions = [f \in FeedIds |->
                         [blockingComparisons |-> <<>>, passingComparisons |-> <<>>,
                          dateChecks |-> NoDateChecks]]
    /\ last = NoCall
    /\ invocation = NoInvocations
    /\ \E first \in DatedBatches, rest \in DatedBatches, dateChecks \in DateChecksInputs :
          dateCall = [called |-> FALSE, articles |-> first \o rest,
                      dateChecks |-> dateChecks, returned |-> <<>>]
    /\ cacheEntries = EmptyCache
    /\ upstream = NothingUpstream
    /\ serviceCall = NoServiceCall
    /\ parse = NoParse

\* The call of the filter.
CallDateFilter ==
    /\ ~dateCall.called
    /\ dateCall' = [dateCall EXCEPT
           !.called = TRUE,
           !.returned = filterArticlesBasedOnDateChecks(dateCall.articles,
                                                        dateCall.dateChecks)]
    /\ UNCHANGED <<planVars, raceVars, fetchVars, parseVars>>

NextDate == CallDateFilter

SpecDate == InitDate /\ [][NextDate]_vars

\* ------------------------------------------------- the fetch orchestrator
\* The site answers differently for a URL.
SetUpstream(url, body) ==
    /\ upstream[url] # body
    /\ upstream' = [upstream EXCEPT ![url] = body]
    /\ serviceCall' = NoServiceCall
    /\ UNCHANGED <<cacheEntries, planVars, raceVars, dateVars, parseVars>>

\* Time goes by: the entries age and the expired ones go.
Tick ==
    /\ DOMAIN cacheEntries # {}
    /\ cacheEntries' = Elapse(cacheEntries, TickSeconds)
    /\ serviceCall' = NoServiceCall
    /\ UNCHANGED <<upstream, planVars, raceVars, dateVars, parseVars>>

FetchReturned(url, options, findRssFromHtml, r) ==
    /\ cacheEntries' = r.cache
    /\ serviceCall' = [op |-> "fetchFeedArticles", url |-> url, options |-> options,
                       findRssFromHtml |-> findRssFromHtml, useOldTTL |-> FALSE,
                       before |-> cacheEntries, fetched |-> r.fetched,
                       thrown |-> r.thrown, output |-> r.output, returnedUrl |-> r.url,
                       attemptedToResolveFromHtml |-> r.attemptedToResolveFromHtml,
                       id |-> 0, article |-> NoArticle]
    /\ UNCHANGED <<upstream, planVars, raceVars, dateVars, parseVars>>

\* One fetchFeedArticles call.
FetchFeedArticles(url, options, findRssFromHtml) ==
    FetchReturned(url, options, findRssFromHtml,
        fetchFeedArticles(cacheEntries, upstream, url, options, findRssFromHtml))

\* A caller of the service writes articles to the cache.
SetFeedArticlesInCache(url, options, data, useOldTTL) ==
    /\ cacheEntries' = setFeedArticlesInCache(cacheEntries, url, options, data, useOldTTL)
    /\ serviceCall' = [NoServiceCall EXCEPT !.op = "setFeedArticlesInCache",
                          !.url = url, !.options = options, !.useOldTTL = useOldTTL,
                          !.before = cacheEntries, !.output = data]
    /\ UNCHANGED <<upstream, planVars, raceVars, dateVars, parseVars>>

\* A caller of the service refreshes an entry.
RefreshFeedArticlesCacheExpiration(url, options) ==
    /\ cacheEntries' = refreshFeedArticlesCacheExpiration(cacheEntries, url, options)
    /\ serviceCall' = [NoServiceCall EXCEPT !.op = "refreshFeedArticlesCacheExpiration",
                          !.url = url, !.options = options, !.before = cacheEntries]
    /\ UNCHANGED <<upstream, planVars, raceVars, dateVars, parseVars>>

FetchArticleReturned(url, id, options, r) ==
    /\ cacheEntries' = r.cache
    /\ serviceCall' = [NoServiceCall EXCEPT !.op = "fetchFeedArticle", !.url = url,
                          !.options = options, !.before = cacheEntries,
                          !.fetched = r.fetched, !.thrown = r.thrown,
                          !.id = id, !.article = r.article]
    /\ UNCHANGED <<upstream, planVars, raceVars, dateVars, parseVars>>

\* One fetchFeedArticle call.
FetchFeedArticle(url, id, options) ==
    FetchArticleReturned(url, id, options,
        fetchFeedArticle(cacheEntries, upstream, url, id, options))

NextFetch ==
    \/ \E url \in Urls, body \in Bodies : SetUpstream(url, body)
    \/ \E r \in FetchRequests, id \in 1..MaxId : FetchFeedArticle(r.url, id, r.options)
    \/ Tick
    \/ \E r \in FetchRequests, findRssFromHtml \in BOOLEAN :
          FetchFeedArticles(r.url, r.options, findRssFromHtml)
    \/ \E r \in FetchRequests, useOldTTL \in BOOLEAN, body \in FeedBodies :
          SetFeedArticlesInCache(r.url, r.options,
                                 Output(getArticlesFromXml(body.items)), useOldTTL)
    \/ \E r \in FetchRequests : RefreshFeedArticlesCacheExpiration(r.url, r.options)

SpecFetch == Init /\ [][NextFetch]_vars

\* --------------------------------------------- the orchestrator with probes
InitFind ==
    /\ fieldRows = {}
    /\ comparisons = {}
    /\ feedXml = [f \in FeedIds |-> <<>>]
    /\ feedOptions = [f \in FeedIds |->
                         [blockingComparisons |-> <<>>, passingComparisons |-> <<>>,
                          dateChecks |-> NoDateChecks]]
    /\ last = NoCall
    /\ invocation = NoInvocations
    /\ dateCall = NoDateCall
    /\ cacheEntries = EmptyCache
    /\ upstream = [url \in FindUrls |-> NoBody]
    /\ serviceCall = NoServiceCall
    /\ parse = NoParse

FindReturned(originalUrl, options, findRssFromHtml, r) ==
    /\ cacheEntries' = r.cache
    /\ serviceCall' = [op |-> "findOrFetchFeedArticles", url |-> originalUrl,
                       options |-> options, findRssFromHtml |-> findRssFromHtml,
                       useOldTTL |-> FALSE, before |-> cacheEntries,
                       fetched |-> r.fetched, thrown |-> r.thrown, output |-> r.output,
                       returnedUrl |-> r.url,
                       attemptedToResolveFromHtml |-> r.attemptedToResolveFromHtml,
                       attempts |-> r.attempts, thrownBy |-> r.thrownBy]
    /\ UNCHANGED <<upstream, planVars, raceVars, dateVars, parseVars>>

\* One findOrFetchFeedArticles call.
FindOrFetchFeedArticles(originalUrl, options, findRssFromHtml) ==
    FindReturned(originalUrl, options, findRssFromHtml,
        findOrFetchFeedArticles(cacheEntries, upstream, originalUrl, options,
                                findRssFromHtml))

NextFind ==
    \/ \E url \in FindUrls, body \in FindBodies : SetUpstream(url, body)
    \/ \E originalUrl \in OriginalUrls, findRssFromHtml \in BOOLEAN :
          FindOrFetchFeedArticles(originalUrl,
              [formatOptions |-> NoFormatOptions, externalFeedProperties |-> <<>>,
               requestLookupDetails |-> NoLookupDetails], findRssFromHtml)

SpecFind == InitFind /\ [][NextFind]_vars

\* ------------------------------------------------------------- two feeds
\* Two feeds over one field store and one registry; each lists up to
\* MaxBatch of two items that share a title.
ScopedFeedIds == {"feed1", "feed2"}

ScopedItems == {[guid |-> g, title |-> 1, description |-> 0] : g \in 1..MaxId}

ScopedComparisonLists == {<<>>, <<"title">>}

InitScoped ==
    /\ fieldRows = {}
    /\ comparisons = {}
    /\ feedXml = [f \in ScopedFeedIds |-> <<>>]
    /\ feedOptions = [f \in ScopedFeedIds |->
                         [blockingComparisons |-> <<>>, passingComparisons |-> <<>>,
                          dateChecks |-> NoDateChecks]]
    /\ last = NoCall
    /\ invocation = NoInvocations
    /\ dateCall = NoDateCall
    /\ cacheEntries = EmptyCache
    /\ upstream = NothingUpstream
    /\ serviceCall = NoServiceCall
    /\ parse = NoParse

\* One deleteInfoForFeed call.
DeleteInfoForFeed(f) ==
    /\ fieldRows' = deleteInfoForFeed(Database, f).rows
    /\ comparisons' = deleteInfoForFeed(Database, f).comparisons
    /\ last' = [NoCall EXCEPT !.feedId = f, !.prior = Database, !.deleted = TRUE]
    /\ UNCHANGED <<feedXml, feedOptions>>
    /\ UNCHANGED offPlanVars

NextScoped ==
    \/ \E f \in ScopedFeedIds, item \in ScopedItems : PublishItem(f, item)
    \/ \E f \in ScopedFeedIds, blocking \in ScopedComparisonLists :
          SetBlockingComparisons(f, blocking)
    \/ \E f \in ScopedFeedIds : Poll(f)
    \/ \E f \in ScopedFeedIds : DeleteInfoForFeed(f)

SpecScoped == InitScoped /\ [][NextScoped]_vars

\* ------------------------------------------------------------- the parser
\* getArticlesFromXml has built the promise, armed the timer, written the
\* XML to the parser and returned the promise.
InitParse ==
    /\ fieldRows = {}
    /\ comparisons = {}
    /\ feedXml = [f \in FeedIds |-> <<>>]
    /\ feedOptions = [f \in FeedIds |->
                         [blockingComparisons |-> <<>>, passingComparisons |-> <<>>,
                          dateChecks |-> NoDateChecks]]
    /\ last = NoCall
    /\ invocation = NoInvocations
    /\ dateCall = NoDateCall
    /\ cacheEntries = EmptyCache
    /\ upstream = NothingUpstream
    /\ serviceCall = NoServiceCall
    /\ \E in \in ParseInputs :
          parse = [NoParse EXCEPT !.pc = "parsing", !.input = in, !.timer = "armed"]

ParseStep(p) ==
    /\ parse' = p
    /\ UNCHANGED <<planVars, raceVars, dateVars, fetchVars>>

\* Time goes by while the call is under way; a timer that is due fires
\* before more time goes by.
Wait ==
    /\ parse.pc \in {"parsing", "mapping", "injecting", "sleeping"}
    /\ parse.elapsedMs < MaxElapsedMs
    /\ ~(parse.timer = "armed" /\ parse.elapsedMs >= timeoutOf(parse.input.options))
    /\ ParseStep([parse EXCEPT !.elapsedMs = @ + ClockStepMs])

\* The timer fires: reject(new FeedParseTimeoutException()).
TimerFires ==
    /\ parse.timer = "armed"
    /\ parse.elapsedMs >= timeoutOf(parse.input.options)
    /\ ParseStep(settle([parse EXCEPT !.timer = "fired"], "timer", "rejected",
                        FeedParseTimeoutException, <<>>))

\* "readable": the next item is read, recorded and pushed.
Readable ==
    /\ parse.pc = "parsing"
    /\ Len(parse.rawArticles) < Len(parse.input.items)
    /\ ParseStep([parse EXCEPT !.rawArticles =
                     Append(@, parse.input.items[Len(parse.rawArticles) + 1])])

\* "error": the parser gives up on the XML.
ParserFails ==
    /\ parse.pc = "parsing"
    /\ parse.input.failure # ""
    /\ ParseStep(settle([parse EXCEPT !.pc = "failed"], "error", "rejected",
                        onParserError(ParserError(parse.input.failure)), <<>>))

\* "end": the timer is cleared; then no article resolves, no ID type
\* rejects, and otherwise flatten is called for every article at once.
ParserEnds ==
    /\ parse.pc = "parsing"
    /\ parse.input.failure = ""
    /\ Len(parse.rawArticles) = Len(parse.input.items)
    /\ LET cleared == clearTimeout(parse)
           start == endOfParse(parse.rawArticles, parse.input.idType)
       IN  IF start.outcome = "mapping"
           THEN ParseStep([cleared EXCEPT !.pc = "mapping",
                              !.flattenCalls = Len(parse.rawArticles),
                              !.startedAfterTimeout =
                                  @ + startedLate(cleared, Len(parse.rawArticles))])
           ELSE ParseStep(settle([cleared EXCEPT !.pc = "finished"], "end",
                                 start.outcome, start.error, <<>>))

\* The flatten calls have returned and the articles have their id and
\* idHash: a missing idHash rejects; the injection closures of the first
\* chunk are called, or the articles are resolved.
Flattened ==
    /\ parse.pc = "mapping"
    /\ LET mapped == mapArticles(parse.rawArticles, getIDType(parse.rawArticles), parse.sha1)
           p == [parse EXCEPT !.sha1 = mapped.shared, !.mappedArticles = mapped.articles]
       IN  IF missingIdHash(mapped.articles)
           THEN ParseStep(settle([p EXCEPT !.pc = "finished"], "end", "rejected",
                                 MissingIdHashError, <<>>))
           ELSE IF /\ Len(mapped.articles) <= MaxArticleInjectionArticleCount
                   /\ parse.input.hasArticleContentInjection
           THEN ParseStep(startChunk(p, 1))
           ELSE ParseStep(settle([p EXCEPT !.pc = "finished"], "end", "resolved",
                                 NoError, mapped.articles))

\* One of the injection closures under way returns.
ClosureReturns ==
    /\ parse.pc = "injecting"
    /\ parse.injectReturns < parse.injectCalls
    /\ ParseStep([parse EXCEPT !.injectReturns = @ + 1])

\* All the injection closures of the chunk have returned: the one-second
\* pause.
Injected ==
    /\ parse.pc = "injecting"
    /\ parse.injectReturns = parse.injectCalls
    /\ ParseStep([parse EXCEPT !.pc = "sleeping"])

\* The pause is over: the closures of the next chunk are called, or, with
\* no chunk left, the articles are resolved.
Slept ==
    /\ parse.pc = "sleeping"
    /\ IF parse.chunk < Len(chunkArray(parse.mappedArticles, InjectionChunkSize))
       THEN ParseStep(startChunk(parse, parse.chunk + 1))
       ELSE ParseStep(settle([parse EXCEPT !.pc = "finished"], "end", "resolved",
                             NoError, parse.mappedArticles))

NextParse ==
    \/ Wait
    \/ TimerFires
    \/ Readable
    \/ ParserFails
    \/ ParserEnds
    \/ Flattened
    \/ ClosureReturns
    \/ Injected
    \/ Slept

SpecParse == InitParse /\ [][NextParse]_vars

\* ------------------------------------------------------- the cache layer
\* The values the callers cache: no article, an article with both dates,
\* and an article whose date is undefined.
CacheValues ==
    {Output(<<>>),
     Output(<<BuildArticle([guid |-> 1, title |-> 1, description |-> 0])>>),
     Output(<<[BuildArticle([guid |-> 2, title |-> 0, description |-> 1])
                 EXCEPT !.raw.date = Undefined]>>)}

GetFeedArticlesFromCache(url, options) ==
    /\ serviceCall' = [NoServiceCall EXCEPT !.op = "getFeedArticlesFromCache",
                          !.url = url, !.options = options, !.before = cacheEntries,
                          !.output = getFeedArticlesFromCache(cacheEntries, url, options)]
    /\ UNCHANGED <<cacheEntries, upstream, planVars, raceVars, dateVars, parseVars>>

DoFeedArticlesExistInCache(url, options) ==
    /\ serviceCall' = [NoServiceCall EXCEPT !.op = "doFeedArticlesExistInCache",
                          !.url = url, !.options = options, !.before = cacheEntries,
                          !.exists = doFeedArticlesExistInCache(cacheEntries, url, options)]
    /\ UNCHANGED <<cacheEntries, upstream, planVars, raceVars, dateVars, parseVars>>

InvalidateFeedArticlesCache(url, options) ==
    /\ cacheEntries' = invalidateFeedArticlesCache(cacheEntries, url, options)
    /\ serviceCall' = [NoServiceCall EXCEPT !.op = "invalidateFeedArticlesCache",
                          !.url = url, !.options = options, !.before = cacheEntries]
    /\ UNCHANGED <<upstream, planVars, raceVars, dateVars, parseVars>>

NextCache ==
    \/ Tick
    \/ \E r \in FetchRequests, useOldTTL \in BOOLEAN, data \in CacheValues :
          SetFeedArticlesInCache(r.url, r.options, data, useOldTTL)
    \/ \E r \in FetchRequests : GetFeedArticlesFromCache(r.url, r.options)
    \/ \E r \in FetchRequests : DoFeedArticlesExistInCache(r.url, r.options)
    \/ \E r \in FetchRequests : InvalidateFeedArticlesCache(r.url, r.options)

SpecCache == Init /\ [][NextCache]_vars

\* ------------------------------------------------------------ the cache key
FormatOptionNames == <<"dateFormat", "dateLocale", "dateTimezone", "disableImageLinkPreviews">>

\* formatOptions objects: dateFormat alone, the first two members in either
\* order, each falsy (0) or set (1), and objects that carry all four
\* members, all falsy or all set, in two insertion orders.
FormatObjects ==
    {<<>>}
    \cup {<<<<n, v>>>> : n \in {"dateFormat"}, v \in 0..1}
    \cup {<<<<n, v>>, <<m, w>>>> : n \in {"dateFormat"}, m \in {"dateLocale"}, v \in 0..1, w \in 0..1}
    \cup {<<<<m, w>>, <<n, v>>>> : n \in {"dateFormat"}, m \in {"dateLocale"}, v \in 0..1, w \in 0..1}
    \cup {[i \in 1..4 |-> <<FormatOptionNames[i], v>>] : v \in 0..1}
    \cup {[i \in 1..4 |-> <<FormatOptionNames[5 - i], v>>] : v \in 0..1}

\* externalFeedProperties: absent, an empty list, or a list of one property.
ExternalFeedPropertyLists ==
    {[present |-> FALSE, list |-> <<>>], [present |-> TRUE, list |-> <<>>],
     [present |-> TRUE, list |-> <<"property1">>]}

\* requestLookupDetails: undefined, or a key with the URL to fetch instead.
KeyLookupDetails ==
    {NoLookupDetails}
    \cup {[defined |-> TRUE, key |-> d[1],
           url |-> [origin |-> "https://site.example", pathname |-> d[2]]] :
            d \in {<<"lookup1", "/rss.xml">>, <<"lookup1", "/atom.xml">>,
                   <<"lookup2", "/rss.xml">>}}

KeyInputs ==
    [url : {[origin |-> "https://site.example", pathname |-> p] : p \in {"/blog", "/rss.xml"}},
     formatOptions : FormatObjects,
     externalFeedProperties : ExternalFeedPropertyLists,
     requestLookupDetails : KeyLookupDetails]

\* The member reads the function makes of the options it is given:
\* options.formatOptions?.<name> for the four names and
\* options.externalFeedProperties?.length, which is undefined, and so
\* falsy like 0, when the list is absent.
readOptions(input) ==
    [formatOptions |->
        [dateFormat |-> Get(input.formatOptions, "dateFormat"),
         dateLocale |-> Get(input.formatOptions, "dateLocale"),
         dateTimezone |-> Get(input.formatOptions, "dateTimezone"),
         disableImageLinkPreviews |-> Get(input.formatOptions, "disableImageLinkPreviews")],
     externalFeedProperties |->
        IF input.externalFeedProperties.present THEN input.externalFeedProperties.list ELSE <<>>,
     requestLookupDetails |-> input.requestLookupDetails]

\* Two callers are about to ask for the key of their {url, options}.
InitKey ==
    /\ fieldRows = {}
    /\ comparisons = {}
    /\ feedXml = [f \in FeedIds |-> <<>>]
    /\ feedOptions = [f \in FeedIds |->
                         [blockingComparisons |-> <<>>, passingComparisons |-> <<>>,
                          dateChecks |-> NoDateChecks]]
    /\ last = NoCall
    /\ invocation = NoInvocations
    /\ dateCall = NoDateCall
    /\ cacheEntries = EmptyCache
    /\ upstream = NothingUpstream
    /\ parse = NoParse
    /\ \E first \in KeyInputs, second \in KeyInputs :
          serviceCall = [op |-> "pending", first |-> first, second |-> second,
                         firstKey |-> <<>>, secondKey |-> <<>>]

\* Two calls of calculateCacheKeyForArticles, side by side.
CalculateCacheKeys ==
    /\ serviceCall.op = "pending"
    /\ serviceCall' =
          [serviceCall EXCEPT
              !.op = "calculateCacheKeyForArticles",
              !.firstKey = calculateCacheKeyForArticles(serviceCall.first.url,
                                                        readOptions(serviceCall.first)),
              !.secondKey = calculateCacheKeyForArticles(serviceCall.second.url,
                                                         readOptions(serviceCall.second))]
    /\ UNCHANGED <<cacheEntries, upstream, planVars, raceVars, dateVars, parseVars>>

NextKey == CalculateCacheKeys

SpecKey == InitKey /\ [][NextKey]_vars

TypeOK ==
    /\ \A r \in fieldRows : r[1] \in FeedIds /\ r[2] \in ComparisonFields \cup {"id"}
    /\ \A c \in comparisons : c[1] \in FeedIds /\ c[2] \in ComparisonFields

\* ------------------------------------------------------------- properties
\* The latest call, its inputs and the store it started from.
LastFeed == last.feedId

LastOptions == feedOptions[last.feedId]

Batch == getArticlesFromXml(feedXml[last.feedId])

PriorHasRows == \E r \in last.prior.rows : r[1] = LastFeed

\* The latest call was a pass over a non-empty batch on a feed with no rows.
SeedPassed == last.kind # "none" /\ Len(Batch) > 0 /\ ~PriorHasRows

\* The latest call was a pass over a non-empty batch on a feed with rows.
NonSeedPassed == last.kind # "none" /\ Len(Batch) > 0 /\ PriorHasRows

IdStoredBefore(a) == <<LastFeed, "id", Sha1Hex(a.flattened.id)>> \in last.prior.rows

HasValue(a, f) == a.flattened[f] # NoValue

ValueStoredBefore(a, f) ==
    HasValue(a, f) /\ <<LastFeed, f, Sha1Hex(a.flattened[f])>> \in last.prior.rows

ActivatedBefore(f) == <<LastFeed, f>> \in last.prior.comparisons

Delivered(a) == a \in Range(last.articlesToDeliver)

\* The same call made again at once: same XML, same options, current store.
Rerun == getArticlesToDeliverFromXml(Database, LastFeed, feedXml[LastFeed], LastOptions)

\* C1: a seed pass (no row stored for the feed) over a non-empty batch
\* returns articlesToDeliver = [] and allArticles = the parsed batch,
\* whatever the comparisons and date checks are.
C1_SeedPassDeliversNothing ==
    SeedPassed =>
        /\ last.articlesToDeliver = <<>>
        /\ Len(last.allArticles) = Len(feedXml[LastFeed])
        /\ \A i \in 1..Len(feedXml[LastFeed]) :
              /\ last.allArticles[i].flattened.id = feedXml[LastFeed][i].guid
              /\ last.allArticles[i].flattened.title = feedXml[LastFeed][i].title
              /\ last.allArticles[i].flattened.description
                     = feedXml[LastFeed][i].description

C1_Witness ==
    /\ SeedPassed
    /\ Len(Batch) >= 2
    /\ LastOptions.blockingComparisons # <<>>
    /\ LastOptions.passingComparisons # <<>>
    /\ LastOptions.dateChecks.defined

\* C2: after a seed pass over a non-empty batch the store holds an id row
\* for the idHash of every article of the batch.
C2_SeedPassStoresEveryId ==
    SeedPassed =>
        \A a \in Range(Batch) : <<LastFeed, "id", Sha1Hex(a.flattened.id)>> \in fieldRows

\* C3: after a non-seed pass, the same call made again at once on the same
\* XML with the same comparisons returns articlesToDeliver = [].
C3_RerunDeliversNothing ==
    NonSeedPassed => Rerun.articlesToDeliver = <<>>

NoComparisonsNoDateChecks ==
    /\ LastOptions.blockingComparisons = <<>>
    /\ LastOptions.passingComparisons = <<>>
    /\ ~LastOptions.dateChecks.defined

UnstoredIds == {a.flattened.id : a \in {b \in Range(Batch) : ~IdStoredBefore(b)}}

LastWithId(id) ==
    LET at == {i \in 1..Len(Batch) : Batch[i].flattened.id = id}
    IN  Batch[CHOOSE i \in at : \A j \in at : j <= i]

\* C4 as claimed: without comparisons and date checks a non-seed pass
\* delivers exactly the articles of the batch whose idHash has no id row.
C4_DeliversExactlyUnstoredArticles ==
    (NonSeedPassed /\ NoComparisonsNoDateChecks) =>
        Range(last.articlesToDeliver) = {a \in Range(Batch) : ~IdStoredBefore(a)}

\* C4 amended: without comparisons and date checks a non-seed pass delivers
\* exactly one article for each idHash of the batch that has no id row, the
\* last article of the batch with that idHash, and no article whose idHash
\* is stored.
C4_DeliversLastArticlePerUnstoredId ==
    (NonSeedPassed /\ NoComparisonsNoDateChecks) =>
        /\ Range(last.articlesToDeliver) = {LastWithId(id) : id \in UnstoredIds}
        /\ Len(last.articlesToDeliver) = Cardinality(UnstoredIds)
        /\ \A a \in Range(last.articlesToDeliver) : ~IdStoredBefore(a)

C4_Witness ==
    /\ NonSeedPassed
    /\ NoComparisonsNoDateChecks
    /\ \E a \in Range(Batch) : IdStoredBefore(a) /\ ~Delivered(a)
    /\ \E a \in Range(Batch) : ~IdStoredBefore(a) /\ Delivered(a)

\* C5 as claimed: an article, new or seen, whose value for a blocking
\* comparison field has its hash stored before the pass is not delivered.
C5_StoredBlockingValueNeverDelivered ==
    last.kind # "none" =>
        \A a \in Range(Batch) :
            (\E f \in Range(LastOptions.blockingComparisons) : ValueStoredBefore(a, f))
                => ~Delivered(a)

\* C5 amended: a new article (its idHash has no id row before the pass)
\* whose value for a blocking comparison field has its hash stored before
\* the pass is not delivered.
C5_StoredBlockingValueBlocksNewArticle ==
    last.kind # "none" =>
        \A a \in Range(Batch) :
            (/\ ~IdStoredBefore(a)
             /\ \E f \in Range(LastOptions.blockingComparisons) : ValueStoredBefore(a, f))
                => ~Delivered(a)

C5_Witness ==
    /\ NonSeedPassed
    /\ \E a \in Range(Batch) :
          /\ ~IdStoredBefore(a)
          /\ \E f \in Range(LastOptions.blockingComparisons) : ValueStoredBefore(a, f)
    /\ last.articlesToDeliver # <<>>

HasNewPassingValue(a) ==
    \E f \in Range(LastOptions.passingComparisons) :
        ActivatedBefore(f) /\ HasValue(a, f) /\ ~ValueStoredBefore(a, f)

\* C6: a seen article with a new value in an activated passing comparison
\* field is delivered by the pass and is not delivered again by a following
\* pass on the same XML.
C6_PassedArticleDeliveredOnce ==
    (NonSeedPassed /\ ~LastOptions.dateChecks.defined) =>
        \A a \in Range(Batch) :
            (IdStoredBefore(a) /\ HasNewPassingValue(a)) =>
                /\ Delivered(a)
                /\ a \notin Range(Rerun.articlesToDeliver)

\* C7: every seen article that is delivered (through the passing path) has
\* an activated passing field with a non-empty value whose hash was not
\* stored before the pass.
C7_PassedArticleHasNewValue ==
    NonSeedPassed =>
        \A a \in Range(Batch) :
            (IdStoredBefore(a) /\ Delivered(a)) => HasNewPassingValue(a)

Without(list, f) == SelectSeq(list, LAMBDA g : g # f)

\* C8: in a non-seed pass a comparison field f that is not yet in the
\* registry has no effect on the result: articlesToDeliver equals that of
\* the same pass on the same store with f removed from both lists.
C8_UnregisteredFieldHasNoEffect ==
    NonSeedPassed =>
        \A f \in ComparisonFields :
            (/\ f \in Range(LastOptions.blockingComparisons)
                        \cup Range(LastOptions.passingComparisons)
             /\ ~ActivatedBefore(f))
            => last.articlesToDeliver =
                   getArticlesToDeliverFromXml(
                       last.prior, LastFeed, feedXml[LastFeed],
                       [LastOptions EXCEPT
                           !.blockingComparisons = Without(@, f),
                           !.passingComparisons = Without(@, f)]).articlesToDeliver

C8_Witness ==
    /\ NonSeedPassed
    /\ \E f \in Range(LastOptions.passingComparisons) :
          /\ ~ActivatedBefore(f)
          /\ \E a \in Range(Batch) : IdStoredBefore(a) /\ HasValue(a, f)
    /\ \E f \in Range(LastOptions.blockingComparisons) :
          /\ ~ActivatedBefore(f)
          /\ \E a \in Range(Batch) : ~IdStoredBefore(a) /\ HasValue(a, f)
    /\ last.articlesToDeliver # <<>>

\* C9: after a non-seed pass called with a comparison field f that was not
\* in the registry, the registry has (feedId, f) and the store has the hash
\* of the f value of every article of the batch that has one.
C9_ActivationIsStored ==
    NonSeedPassed =>
        \A f \in ComparisonFields :
            (/\ f \in Range(LastOptions.blockingComparisons)
                        \cup Range(LastOptions.passingComparisons)
             /\ ~ActivatedBefore(f))
            => /\ <<LastFeed, f>> \in comparisons
               /\ \A a \in Range(Batch) :
                      HasValue(a, f) =>
                          <<LastFeed, f, Sha1Hex(a.flattened[f])>> \in fieldRows

\* C10: the storeArticles calls made with skipIdStorage = true hand no row
\* with fieldName "id" to the field store.
C10_SkipIdStorageHandsNoIdRow ==
    \A r \in last.skipIdInserts : r[2] # "id"

\* ------------------------------------------------- failures of the store
\* The inserts of one storeArticles call on the whole batch.
BatchInserts(fields) == storeArticlesInserts(LastFeed, Batch, fields, FALSE)

AllComparisonsOfLast == LastOptions.blockingComparisons \o LastOptions.passingComparisons

\* C11: a pass that raises an error other than a unique-constraint violation
\* returns no articlesToDeliver and leaves no row of its step-8 writes
\* committed: the store and the registry are those it started from.
C11_NoPartialCommit ==
    (/\ last.kind = "pass"
     /\ last.error # NoError
     /\ last.error.name # "UniqueConstraintViolationException")
    => /\ last.articlesToDeliver = <<>>
       /\ fieldRows = last.prior.rows
       /\ comparisons = last.prior.comparisons

\* C12: a storeArticles call commits all of its rows or none.  The seed
\* pass, which is one call, leaves the store as it was or with every id
\* row, registry row and comparison row of the batch; a registry row
\* (feedId, f) committed by a pass comes with the id row and the f-value
\* row of every article of its call; and no f-value row is committed
\* without the registry row (feedId, f).
C12_StoreArticlesIsAtomic ==
    /\ last.kind = "seed" =>
           \/ /\ fieldRows = last.prior.rows
              /\ comparisons = last.prior.comparisons
           \/ /\ BatchInserts(AllComparisonsOfLast) \subseteq fieldRows
              /\ \A f \in Range(AllComparisonsOfLast) : <<LastFeed, f>> \in comparisons
    /\ last.kind \in {"seed", "pass"} =>
           \A c \in comparisons \ last.prior.comparisons :
               BatchInserts(<<c[2]>>) \subseteq fieldRows
    /\ \A r \in fieldRows : r[2] # "id" => <<r[1], r[2]>> \in comparisons

\* A pass has committed a registry row together with comparison rows, and
\* the store could have raised.
C12_Witness ==
    /\ last.kind = "pass"
    /\ comparisons # last.prior.comparisons
    /\ \E r \in fieldRows \ last.prior.rows : r[2] # "id"
    /\ \E r \in fieldRows \ last.prior.rows : r[2] = "id"

\* C13: when the store raises inside a storeArticles transaction, a
\* unique-constraint violation with code 23505 is swallowed, the pass goes
\* on and returns its result; any other error is rethrown: the pass raises
\* it.  Without an error raised by the store the pass never raises.
C13_UniqueViolationSwallowedOthersRethrown ==
    /\ last.fault = NoFault => last.error = NoError
    /\ (last.fault # NoFault /\ last.fault.err = UniqueConstraintViolation) =>
           /\ last.error = NoError
           /\ last.kind = "pass" =>
                  last.articlesToDeliver =
                      filterArticlesBasedOnDateChecks(
                          Reverse(last.articlesPastBlocks \o last.articlesPassedComparisons),
                          LastOptions.dateChecks)
    /\ (last.fault # NoFault /\ last.fault.err # UniqueConstraintViolation) =>
           last.error = last.fault.err

\* A pass whose transaction raised a unique-constraint violation has
\* returned articles to deliver, and the batch itself had no collision.
C13_Witness ==
    /\ last.kind = "pass"
    /\ last.fault # NoFault
    /\ last.fault.err = UniqueConstraintViolation
    /\ last.error = NoError
    /\ last.articlesToDeliver # <<>>

\* -------------------------------------------------- concurrent invocations
\* Both invocations found no row for the feed and have returned.
BothSeeded ==
    \A i \in Invocations : invocation[i].pc = "returned" /\ invocation[i].kind = "seed"

\* C14: when two invocations for the same feed both observed
\* priorArticlesStored = false and both have returned, both returned no
\* article to deliver and the store has 'id' rows for the feed.
C14_SeedRaceSeedsTheFeed ==
    BothSeeded =>
        /\ \A i \in Invocations : invocation[i].articlesToDeliver = <<>>
        /\ \A f \in FeedIds : hasArticlesStoredForFeed(Database, f)

\* ------------------------------------------------------------------ order
\* The ways to find the articles of `delivered` in `emitted` at strictly
\* decreasing positions.
ReverseEmbeddings(delivered, emitted) ==
    {m \in [1..Len(delivered) -> 1..Len(emitted)] :
        /\ \A p \in 1..Len(delivered) : emitted[m[p]] = delivered[p]
        /\ \A p, q \in 1..Len(delivered) : p < q => m[p] > m[q]}

\* C15: articlesToDeliver is in the reverse of the parser's emission order:
\* of two delivered articles, the one the parser emitted later comes first,
\* also when new articles and passed seen articles are mixed.
C15_DeliveredInReverseEmissionOrder ==
    last.kind = "pass" => ReverseEmbeddings(last.articlesToDeliver, Batch) # {}

\* ------------------------------------------------------------ date filter
\* The placeholders the filter reads, and the first valid date among them.
PlaceholdersOf(dateChecks) ==
    IF dateChecks.hasReferences THEN dateChecks.datePlaceholderReferences
    ELSE DefaultPlaceholders

RawDate(a, placeholder) == IF placeholder \in DOMAIN a.raw THEN a.raw[placeholder] ELSE 0

HasValidDate(a, dateChecks) ==
    \E k \in 1..Len(PlaceholdersOf(dateChecks)) :
        RawDate(a, PlaceholdersOf(dateChecks)[k]) # 0

FirstValidDate(a, dateChecks) ==
    LET ps == PlaceholdersOf(dateChecks)
        k == CHOOSE k \in 1..Len(ps) :
                 /\ RawDate(a, ps[k]) # 0
                 /\ \A j \in 1..(k - 1) : RawDate(a, ps[j]) = 0
    IN  RawDate(a, ps[k])

\* C16: for every threshold T given as oldArticleDateDiffMsThreshold, zero
\* included, the filter keeps exactly the articles that have a valid date
\* whose first valid one d has Now - d <= T, in their order; with the
\* threshold absent it returns its input.
C16_DateFilterKeepsOnlyRecentArticles ==
    dateCall.called =>
        IF dateCall.dateChecks.defined /\ dateCall.dateChecks.hasThreshold
        THEN dateCall.returned =
                 SelectSeq(dateCall.articles,
                     LAMBDA a : /\ HasValidDate(a, dateCall.dateChecks)
                                /\ Now - FirstValidDate(a, dateCall.dateChecks)
                                       <= dateCall.dateChecks.oldArticleDateDiffMsThreshold)
        ELSE dateCall.returned = dateCall.articles

\* -------------------------------------------------------- cache and fetch
\* The latest call was a fetchFeedArticles call; its key, the URL it asks
\* the Fetcher for, and whether it found its entry.
Fetching == serviceCall.op = "fetchFeedArticles"

CallKey == calculateCacheKeyForArticles(serviceCall.url, serviceCall.options)

CallTarget ==
    IF serviceCall.options.requestLookupDetails.defined
    THEN serviceCall.options.requestLookupDetails.url
    ELSE serviceCall.url

CacheHit == Fetching /\ CallKey \in DOMAIN serviceCall.before

CacheMiss == Fetching /\ CallKey \notin DOMAIN serviceCall.before

\* The cache but for the entry of one key.
Except(cache, key) == [k \in DOMAIN cache \ {key} |-> cache[k]]

\* C17: a fetchFeedArticles call that finds an unexpired entry for its key
\* makes no Fetcher call, returns the cached articles with its url, and
\* leaves the entry with the same value and 300 seconds to live; the other
\* entries are left alone.
C17_CacheHitServesAndRefreshes ==
    CacheHit =>
        /\ serviceCall.fetched = <<>>
        /\ serviceCall.thrown = NoError
        /\ ~serviceCall.output.isNull
        /\ Deflate(JsonStringifyOutput(serviceCall.output)) = serviceCall.before[CallKey].body
        /\ serviceCall.returnedUrl = serviceCall.url
        /\ CallKey \in DOMAIN cacheEntries
        /\ cacheEntries[CallKey].body = serviceCall.before[CallKey].body
        /\ cacheEntries[CallKey].ttl = 300
        /\ Except(cacheEntries, CallKey) = Except(serviceCall.before, CallKey)

\* The entry had less than 300 seconds left and the site no longer serves
\* what is cached.
C17_Witness ==
    /\ CacheHit
    /\ serviceCall.before[CallKey].ttl < 300
    /\ cacheEntries[CallKey].ttl = 300
    /\ upstream[CallTarget].kind # "feed"

FetchedAndParsed ==
    /\ CacheMiss
    /\ Len(serviceCall.fetched) = 1
    /\ upstream[CallTarget].kind = "feed"
    /\ serviceCall.thrown = NoError

\* C19: a fetchFeedArticles call that misses the cache, fetches a body and
\* parses it has stored the parsed articles under its key when it returns;
\* a second call with the same url and options, at once or TickSeconds
\* later, whatever the site serves by then, returns the same articles and
\* makes no Fetcher call.
C19_WriteThrough ==
    FetchedAndParsed =>
        /\ ~serviceCall.output.isNull
        /\ CallKey \in DOMAIN cacheEntries
        /\ cacheEntries[CallKey] =
               [body |-> Deflate(JsonStringifyOutput(serviceCall.output)), ttl |-> 300]
        /\ \A elapsed \in {0, TickSeconds}, bodies \in [Urls -> Bodies],
              findRssFromHtml \in BOOLEAN :
              LET second == fetchFeedArticles(Elapse(cacheEntries, elapsed), bodies,
                                serviceCall.url, serviceCall.options, findRssFromHtml)
              IN  /\ second.fetched = <<>>
                  /\ second.thrown = NoError
                  /\ second.output = serviceCall.output

\* A feed with an article was fetched, parsed and cached.
C19_Witness ==
    /\ FetchedAndParsed
    /\ serviceCall.output.articles # <<>>
    /\ CallKey \in DOMAIN cacheEntries

\* C20 as stated: a call that misses the cache and gets no body returns
\* {output: null, url}; one whose body fails to parse raises; in both cases
\* the cache entry of its key is as it was.
C20_FailedFetchRaises ==
    CacheMiss =>
        /\ upstream[CallTarget].kind = "none" =>
               /\ serviceCall.thrown = NoError
               /\ serviceCall.output.isNull
               /\ serviceCall.returnedUrl = serviceCall.url
               /\ CallKey \notin DOMAIN cacheEntries
        /\ upstream[CallTarget].kind \notin {"none", "feed"} =>
               /\ serviceCall.thrown # NoError
               /\ CallKey \notin DOMAIN cacheEntries

\* The URL an RSS link of the body of the call resolves to.
LinkedUrl ==
    IF upstream[CallTarget].href.startsWithSlash
    THEN [origin |-> serviceCall.url.origin,
          pathname |-> upstream[CallTarget].href.url.pathname]
    ELSE upstream[CallTarget].href.url

FallsBack ==
    /\ serviceCall.findRssFromHtml
    /\ upstream[CallTarget].kind = "html"
    /\ upstream[CallTarget].href.present

\* C20, amended: a call that misses the cache and gets no body returns
\* {output: null, url} and leaves the cache as it was; one whose body fails
\* to parse leaves the entry of its key as it was and raises InvalidFeed with
\* the cache as it was, unless findRssFromHtml is set and the body links to
\* an RSS URL: then it does, returns and raises what a call on the linked
\* URL without findRssFromHtml does.  A call that raises or returns no
\* output has written nothing.
C20_FailedFetchRaisesOrFallsBack ==
    CacheMiss =>
        /\ upstream[CallTarget].kind = "none" =>
               /\ serviceCall.thrown = NoError
               /\ serviceCall.output.isNull
               /\ serviceCall.returnedUrl = serviceCall.url
               /\ serviceCall.fetched = <<CallTarget>>
               /\ cacheEntries = serviceCall.before
        /\ upstream[CallTarget].kind \notin {"none", "feed"} =>
               /\ CallKey \notin DOMAIN cacheEntries
               /\ IF FallsBack
                  THEN LET second == fetchFeedArticles(serviceCall.before, upstream,
                                         LinkedUrl, serviceCall.options, FALSE)
                       IN  /\ serviceCall.thrown = second.thrown
                           /\ serviceCall.output = second.output
                           /\ serviceCall.returnedUrl = second.url
                           /\ serviceCall.fetched = <<CallTarget>> \o second.fetched
                           /\ cacheEntries = second.cache
                  ELSE /\ serviceCall.thrown = InvalidFeedException
                       /\ serviceCall.fetched = <<CallTarget>>
                       /\ cacheEntries = serviceCall.before
        /\ (serviceCall.thrown # NoError \/ serviceCall.output.isNull) =>
               cacheEntries = serviceCall.before

\* The body was an HTML page, the call fell back to the feed it links to,
\* returned its articles and cached them under the key of the linked URL.
C20_Witness ==
    /\ CacheMiss
    /\ FallsBack
    /\ serviceCall.thrown = NoError
    /\ ~serviceCall.output.isNull
    /\ Len(serviceCall.fetched) = 2
    /\ cacheEntries # serviceCall.before

\* The call got an HTML page that links to an RSS URL and tried that URL.
MadeHtmlFallbackAttempt == CacheMiss /\ FallsBack

\* The call had no lookup URL and the href of the link starts with "/".
RelativeFallback ==
    /\ MadeHtmlFallbackAttempt
    /\ ~serviceCall.options.requestLookupDetails.defined
    /\ upstream[CallTarget].href.startsWithSlash

\* The origin of the URL of the call, followed by the href.
OriginThenHref ==
    [origin |-> serviceCall.url.origin, pathname |-> upstream[CallTarget].href.url.pathname]

\* C21 as stated: a call with findRssFromHtml and no lookup URL whose body
\* is HTML with an RSS link whose href starts with "/" makes a second Fetcher
\* call on the origin of its URL followed by the href, and returns the
\* result of that attempt.
C21_FallbackFetchesLinkedUrl ==
    RelativeFallback =>
        /\ Len(serviceCall.fetched) = 2
        /\ serviceCall.fetched[2] = OriginThenHref
        /\ serviceCall.returnedUrl = OriginThenHref

\* C21, amended: such a call makes a second fetchFeedArticles attempt, without
\* findRssFromHtml, on the origin of its URL followed by the href, and
\* returns, raises and writes what that attempt does: with an unexpired
\* entry for that URL and the options the attempt returns the cached
\* articles and refreshes the entry with no second Fetcher call, otherwise
\* it makes a second Fetcher call on that URL.
C21_FallbackAttemptsLinkedUrl ==
    RelativeFallback =>
        LET key == calculateCacheKeyForArticles(OriginThenHref, serviceCall.options)
            second == fetchFeedArticles(serviceCall.before, upstream, OriginThenHref,
                                        serviceCall.options, FALSE)
        IN  /\ serviceCall.fetched[1] = serviceCall.url
            /\ IF key \in DOMAIN serviceCall.before
               THEN /\ Len(serviceCall.fetched) = 1
                    /\ serviceCall.thrown = NoError
                    /\ Deflate(JsonStringifyOutput(serviceCall.output)) = serviceCall.before[key].body
                    /\ cacheEntries = [serviceCall.before EXCEPT ![key].ttl = 300]
               ELSE /\ Len(serviceCall.fetched) = 2
                    /\ serviceCall.fetched[2] = OriginThenHref
                    /\ upstream[OriginThenHref].kind = "feed" =>
                           /\ serviceCall.thrown = NoError
                           /\ serviceCall.output =
                                  Output(getArticlesFromXml(upstream[OriginThenHref].items))
                    /\ upstream[OriginThenHref].kind = "html" =>
                           serviceCall.thrown = InvalidFeedException
                    /\ upstream[OriginThenHref].kind = "none" =>
                           serviceCall.thrown = NoError /\ serviceCall.output.isNull
            /\ serviceCall.returnedUrl = OriginThenHref
            /\ serviceCall.thrown = second.thrown
            /\ serviceCall.output = second.output
            /\ cacheEntries = second.cache

\* The page and the feed it links to are two URLs, and the second Fetcher
\* call brought the articles of the feed.
C21_Witness ==
    /\ RelativeFallback
    /\ Len(serviceCall.fetched) = 2
    /\ serviceCall.fetched[2] # serviceCall.fetched[1]
    /\ serviceCall.output.articles # <<>>

\* C22: the result of a call that made an HTML-fallback attempt has
\* attemptedToResolveFromHtml true.
C22_FallbackAttemptIsReported ==
    MadeHtmlFallbackAttempt => serviceCall.attemptedToResolveFromHtml = "true"

\* ------------------------------------------------------------ the probes
\* The latest call was a findOrFetchFeedArticles call; what its first
\* attempt and its probes do, each from the cache the one before left.
Finding == serviceCall.op = "findOrFetchFeedArticles"

FeedProbeUrl == [origin |-> "https://blog.example", pathname |-> "/news/feed"]

RssProbeUrl == [origin |-> "https://blog.example", pathname |-> "/news/rss"]

FirstAttempt ==
    fetchFeedArticles(serviceCall.before, upstream, serviceCall.url, serviceCall.options,
                      serviceCall.findRssFromHtml)

FeedProbe ==
    fetchFeedArticles(FirstAttempt.cache, upstream, FeedProbeUrl, serviceCall.options,
                      serviceCall.findRssFromHtml)

RssProbe ==
    fetchFeedArticles(FeedProbe.cache, upstream, RssProbeUrl, serviceCall.options,
                      serviceCall.findRssFromHtml)

\* The call returned what the attempt did.
ReturnedFrom(attempt) ==
    /\ serviceCall.thrown = NoError
    /\ serviceCall.output = attempt.output
    /\ serviceCall.returnedUrl = attempt.url
    /\ cacheEntries = attempt.cache

\* C23: when the first attempt of findOrFetchFeedArticles raises InvalidFeed,
\* the next attempt is on base + "/feed" and, only if that one raises, the
\* one after is on base + "/rss", base being origin + pathname of the
\* original URL without a final "/"; the first attempt that returns is the
\* result of the call and no attempt follows it.
C23_ProbesFeedThenRss ==
    Finding =>
        /\ FirstAttempt.thrown = NoError =>
               serviceCall.attempts = <<serviceCall.url>> /\ ReturnedFrom(FirstAttempt)
        /\ FirstAttempt.thrown = InvalidFeedException =>
               IF FeedProbe.thrown = NoError
               THEN /\ serviceCall.attempts = <<serviceCall.url, FeedProbeUrl>>
                    /\ ReturnedFrom(FeedProbe)
               ELSE /\ serviceCall.attempts = <<serviceCall.url, FeedProbeUrl, RssProbeUrl>>
                    /\ RssProbe.thrown = NoError => ReturnedFrom(RssProbe)

\* The original URL ends with "/", its page is not a feed, "/feed" serves a
\* feed and "/rss" would have served one too.
C23_Witness ==
    /\ Finding
    /\ serviceCall.url.pathname = "/news/"
    /\ FirstAttempt.thrown = InvalidFeedException
    /\ serviceCall.attempts = <<serviceCall.url, FeedProbeUrl>>
    /\ serviceCall.fetched = <<serviceCall.url, FeedProbeUrl>>
    /\ upstream[RssProbeUrl].kind = "feed"
    /\ serviceCall.output.articles # <<>>

\* C24: when the first attempt raises an error that is not InvalidFeed, the
\* call raises that error and makes no probe; when it raises InvalidFeed and
\* both probes raise, the call raises the InvalidFeed of the first attempt.
C24_RaisesErrorOfFirstAttempt ==
    Finding =>
        /\ (FirstAttempt.thrown # NoError /\ FirstAttempt.thrown # InvalidFeedException) =>
               /\ serviceCall.thrown = FirstAttempt.thrown
               /\ serviceCall.thrownBy = 1
               /\ serviceCall.attempts = <<serviceCall.url>>
        /\ (/\ FirstAttempt.thrown = InvalidFeedException
            /\ FeedProbe.thrown # NoError
            /\ RssProbe.thrown # NoError) =>
               /\ serviceCall.thrown = InvalidFeedException
               /\ serviceCall.thrownBy = 1
               /\ Len(serviceCall.attempts) = 3

\* The page is not a feed and both probes raised an error that is not
\* InvalidFeed.
C24_Witness ==
    /\ Finding
    /\ FirstAttempt.thrown = InvalidFeedException
    /\ FeedProbe.thrown \notin {NoError, InvalidFeedException}
    /\ RssProbe.thrown \notin {NoError, InvalidFeedException}
    /\ serviceCall.thrown = InvalidFeedException

\* --------------------------------------------------------------- the parse
\* The promise of the call was still pending when more than the timeout had
\* gone by.
PendingPastTimeout ==
    \/ parse.settled = "pending" /\ parse.elapsedMs > timeoutOf(parse.input.options)
    \/ parse.settled # "pending" /\ parse.settledAtMs > timeoutOf(parse.input.options)

\* C25: a getArticlesFromXml call that has not finished within the timeout
\* (10 s when the option is not given) fails with FeedParseTimeout, and no
\* flatten call and no content-injection closure is started after the timer
\* fired.
C25_TimeoutFailsAndCancels ==
    /\ timeoutOf([timeout |-> 0]) = 10000
    /\ PendingPastTimeout =>
           parse.settled = "rejected" /\ parse.error = FeedParseTimeoutException
    /\ parse.timer = "fired" => parse.startedAfterTimeout = 0

\* The messages that stand for a feed that is not valid.
InvalidFeedMessages == {"Not a feed", "Unexpected end", "Unexpected end of file"}

\* The promise was settled by the "error" handler.
FailedInParser == parse.pc = "failed" /\ parse.settledBy = "error"

\* C26: a parser error that settles the promise rejects it with InvalidFeed
\* when its message is "Not a feed" or begins with "Unexpected end", and
\* with the error itself for every other message.
C26_ParserErrorTaxonomy ==
    FailedInParser =>
        /\ parse.settled = "rejected"
        /\ parse.error = IF parse.input.failure \in InvalidFeedMessages
                         THEN InvalidFeedException
                         ELSE [name |-> "Error", code |-> "",
                               message |-> parse.input.failure]

\* A message that begins with "Unexpected end" and goes on was mapped.
C26_Witness ==
    /\ FailedInParser
    /\ parse.input.failure = "Unexpected end of file"
    /\ parse.error = InvalidFeedException
    /\ Len(parse.rawArticles) > 0

\* ---------------------------------------------------------- the empty feed
\* The latest call was a pass over an XML with no item.
EmptyPolled == last.kind # "none" /\ Len(feedXml[LastFeed]) = 0

\* C27: the parser ending with no item resolves {articles: []}, whether or
\* not the resolver has an ID type; a pass over such a feed returns
\* allArticles = [] and articlesToDeliver = [], makes no call of the store
\* (none that a failing store could make raise) and leaves the field rows and
\* the registry as they were, so that a feed with no rows still has none and
\* its next poll with an item is its seed pass.
C27_EmptyFeedTouchesNothing ==
    /\ \A idType \in BOOLEAN :
           endOfParse(<<>>, idType) = [outcome |-> "resolved", error |-> NoError]
    /\ getArticlesFromXml(<<>>) = <<>>
    /\ EmptyPolled =>
           /\ last.allArticles = <<>>
           /\ last.articlesToDeliver = <<>>
           /\ last.error = NoError
           /\ last.fault = NoFault
           /\ Database = last.prior
           /\ ~PriorHasRows =>
                  /\ ~hasArticlesStoredForFeed(Database, LastFeed)
                  /\ getArticlesToDeliverFromXml(Database, LastFeed,
                         <<[guid |-> 1, title |-> 1, description |-> 1]>>,
                         LastOptions).kind = "seed"

\* An empty feed with comparisons was polled before it was ever seeded.
C27_Witness ==
    /\ EmptyPolled
    /\ ~PriorHasRows
    /\ LastOptions.blockingComparisons # <<>>
    /\ LastOptions.passingComparisons # <<>>
    /\ fieldRows = {}
    /\ comparisons = {}

\* ---------------------------------------------------------- one article
\* The latest call was a fetchFeedArticle call; the fetch it starts with.
FetchingArticle == serviceCall.op = "fetchFeedArticle"

FetchOfArticle ==
    fetchFeedArticles(serviceCall.before, upstream, serviceCall.url, serviceCall.options,
                      FALSE)

ArticlesWithId ==
    SelectSeq(FetchOfArticle.output.articles,
              LAMBDA article : article.flattened.id = serviceCall.id)

\* C28: fetchFeedArticle raises a "request pending" error when the fetch has
\* a null output; otherwise it returns the article whose flattened.id is
\* the id when there is one, and fails with FeedArticleNotFound when there
\* is none, an empty article list included.
C28_ArticleFoundOrNotFound ==
    (FetchingArticle /\ FetchOfArticle.thrown = NoError) =>
        IF FetchOfArticle.output.isNull
        THEN /\ serviceCall.thrown.name = "Error"
             /\ EndsWith(serviceCall.thrown.message, " is still pending")
        ELSE IF Len(ArticlesWithId) > 0
        THEN /\ serviceCall.thrown = NoError
             /\ serviceCall.article = [isNull |-> FALSE, article |-> ArticlesWithId[1]]
        ELSE serviceCall.thrown.name = "FeedArticleNotFoundException"

\* ------------------------------------------------- deletion and scoping
\* The latest call was a getArticlesToDeliverFromXml call, or a
\* deleteInfoForFeed call.
Passed == last.kind # "none"

Deleted == last.deleted

RowsOf(db, feedId) == {r \in db.rows : r[1] = feedId}

ComparisonsOf(db, feedId) == {c \in db.comparisons : c[1] = feedId}

RowsOfOthers(db, feedId) == {r \in db.rows : r[1] # feedId}

ComparisonsOfOthers(db, feedId) == {c \in db.comparisons : c[1] # feedId}

\* The store with the rows of one feed only.
OnlyFeed(db, feedId) ==
    [rows |-> RowsOf(db, feedId), comparisons |-> ComparisonsOf(db, feedId)]

\* C30: a getArticlesToDeliverFromXml or deleteInfoForFeed call for a feed
\* leaves the field rows and the registry rows of every other feed as they
\* were, and what it returns and leaves for its feed is what it would with
\* no row of another feed in the store.
C30_FeedScoping ==
    (Passed \/ Deleted) =>
        /\ RowsOfOthers(Database, LastFeed) = RowsOfOthers(last.prior, LastFeed)
        /\ ComparisonsOfOthers(Database, LastFeed) =
               ComparisonsOfOthers(last.prior, LastFeed)
        /\ Passed =>
               LET alone == getArticlesToDeliverFromXml(OnlyFeed(last.prior, LastFeed),
                                LastFeed, feedXml[LastFeed], LastOptions)
               IN  /\ last.kind = alone.kind
                   /\ last.allArticles = alone.allArticles
                   /\ last.articlesToDeliver = alone.articlesToDeliver
                   /\ OnlyFeed(Database, LastFeed) = alone.db
        /\ Deleted => OnlyFeed(Database, LastFeed) = [rows |-> {}, comparisons |-> {}]

\* A feed with no row was polled while the other feed, listing the same
\* items, had id rows, comparison rows and a registry row: the poll was a
\* seed pass.
C30_Witness ==
    /\ Passed
    /\ Len(feedXml[LastFeed]) > 0
    /\ RowsOf(last.prior, LastFeed) = {}
    /\ \E r \in RowsOfOthers(last.prior, LastFeed) : r[2] = "title"
    /\ ComparisonsOfOthers(last.prior, LastFeed) # {}
    /\ \E other \in ScopedFeedIds \ {LastFeed} : feedXml[other] = feedXml[LastFeed]
    /\ last.kind = "seed"
    /\ RowsOf(Database, LastFeed) # {}

\* ------------------------------------------------------------ the cache key
KeysCompared == serviceCall.op = "calculateCacheKeyForArticles"

\* The format options an object sets: its members with a truthy value,
\* whatever their order.
SetFormatOptions(input) ==
    {<<input.formatOptions[i][1], input.formatOptions[i][2]>> :
        i \in {j \in 1..Len(input.formatOptions) : input.formatOptions[j][2] # 0}}

\* The external properties an input carries: none when the list is absent
\* or empty.
CarriedProperties(input) ==
    IF input.externalFeedProperties.present THEN input.externalFeedProperties.list ELSE <<>>

\* requestLookupDetails?.key
LookupKeyOf(input) ==
    IF input.requestLookupDetails.defined THEN input.requestLookupDetails.key ELSE "undefined"

SameUpToNormalisation(first, second) ==
    /\ first.url = second.url
    /\ SetFormatOptions(first) = SetFormatOptions(second)
    /\ CarriedProperties(first) = CarriedProperties(second)
    /\ LookupKeyOf(first) = LookupKeyOf(second)

\* C31: two inputs with the same url whose options differ only in the
\* order of the members of formatOptions, in absent versus falsy format
\* options, in an absent versus an empty externalFeedProperties, or in
\* members of requestLookupDetails other than key, get the same cache key;
\* two inputs whose url or requestLookupDetails.key differ get different
\* keys.
C31_CacheKeyDeterminism ==
    KeysCompared =>
        /\ SameUpToNormalisation(serviceCall.first, serviceCall.second)
              => serviceCall.firstKey = serviceCall.secondKey
        /\ (\/ serviceCall.first.url # serviceCall.second.url
            \/ LookupKeyOf(serviceCall.first) # LookupKeyOf(serviceCall.second))
              => serviceCall.firstKey # serviceCall.secondKey

\* Two inputs that differ in all four ways at once and get one key.
C31_Witness ==
    /\ KeysCompared
    /\ serviceCall.first # serviceCall.second
    /\ Len(serviceCall.first.formatOptions) = 4
    /\ Len(serviceCall.second.formatOptions) = 4
    /\ serviceCall.first.formatOptions[1][1] # serviceCall.second.formatOptions[1][1]
    /\ SetFormatOptions(serviceCall.first) # {}
    /\ serviceCall.first.externalFeedProperties.present # serviceCall.second.externalFeedProperties.present
    /\ serviceCall.first.requestLookupDetails.defined
    /\ serviceCall.first.requestLookupDetails.url # serviceCall.second.requestLookupDetails.url
    /\ SameUpToNormalisation(serviceCall.first, serviceCall.second)
    /\ serviceCall.firstKey = serviceCall.secondKey

\* ------------------------------------------------------- the cache layer
KeyOf(r) == calculateCacheKeyForArticles(r.url, r.options)

CachedFor(cache, r) == getFeedArticlesFromCache(cache, r.url, r.options)

\* The step is a call of `op` under the key of r.
CallsUnderKeyOf(op, r) ==
    /\ serviceCall'.op = op
    /\ calculateCacheKeyForArticles(serviceCall'.url, serviceCall'.options) = KeyOf(r)

\* The step is the passing of time in which the entry of r runs out.
ExpiresFor(r) ==
    /\ serviceCall'.op = "none"
    /\ KeyOf(r) \in DOMAIN cacheEntries
    /\ cacheEntries[KeyOf(r)].ttl <= TickSeconds
    /\ cacheEntries' = Elapse(cacheEntries, TickSeconds)

CacheRoundTripStep ==
    \A r \in FetchRequests :
        /\ CallsUnderKeyOf("setFeedArticlesInCache", r)
              => CachedFor(cacheEntries', r) = serviceCall'.output
        /\ CallsUnderKeyOf("invalidateFeedArticlesCache", r)
              => /\ CachedFor(cacheEntries', r) = NoOutput
                 /\ ~doFeedArticlesExistInCache(cacheEntries', r.url, r.options)
        /\ CallsUnderKeyOf("getFeedArticlesFromCache", r)
              => serviceCall'.output = CachedFor(cacheEntries, r)
        /\ CachedFor(cacheEntries', r) # CachedFor(cacheEntries, r)
              => \/ CallsUnderKeyOf("setFeedArticlesInCache", r)
                 \/ CallsUnderKeyOf("invalidateFeedArticlesCache", r)
                 \/ ExpiresFor(r) /\ CachedFor(cacheEntries', r) = NoOutput

ResolvedByEnd == parse.settled = "resolved" /\ parse.settledBy = "end"

\* C33: every article that getArticlesFromXml resolves with has a
\* non-empty flattened.id and a flattened.idHash that is the SHA-1 of that
\* id alone, whatever was hashed before it: the hasher of the module is
\* never fed.
C33_IdHashIsSha1OfId ==
    /\ parse.sha1 = <<>>
    /\ ResolvedByEnd =>
          \A i \in 1..Len(parse.articles) :
              /\ parse.articles[i].flattened.id # NoValue
              /\ parse.articles[i].flattened.idHash = Sha1Hex(parse.articles[i].flattened.id)

\* Two articles, the second hashed after the first, one of them without a
\* guid, so that the ids are the titles.
C33_Witness ==
    /\ ResolvedByEnd
    /\ Len(parse.articles) = 2
    /\ parse.input.items[2].guid = NoValue
    /\ parse.articles[2].flattened.id = parse.input.items[2].title
    /\ parse.articles[2].flattened.idHash = Sha1Hex(parse.input.items[2].title)

\* The number of articles of the first k chunks.
UpToChunk(k) == Min(k * InjectionChunkSize, Len(parse.mappedArticles))

InjectionDue ==
    /\ Len(parse.mappedArticles) > 0
    /\ Len(parse.mappedArticles) <= MaxArticleInjectionArticleCount
    /\ parse.input.hasArticleContentInjection

\* C34: with at most MAX_ARTICLE_INJECTION_ARTICLE_COUNT articles, one of
\* them with a content injection, the closures are called 25 articles at a
\* time in the order of the articles, those of a chunk only after all
\* those of the chunks before it have returned, and all of them before the
\* articles are resolved; with more articles no closure is called and the
\* parse resolves all the same.
C34_InjectionInChunksOf25 ==
    /\ parse.chunk > 0 =>
          /\ InjectionDue
          /\ parse.injectCalls = UpToChunk(parse.chunk)
          /\ parse.injectReturns >= UpToChunk(parse.chunk - 1)
          /\ parse.injectReturns <= parse.injectCalls
    /\ (InjectionDue /\ ResolvedByEnd) =>
          /\ parse.injectCalls = Len(parse.mappedArticles)
          /\ parse.injectReturns = parse.injectCalls
          /\ parse.chunk = Len(chunkArray(parse.mappedArticles, InjectionChunkSize))
    /\ Len(parse.rawArticles) > MaxArticleInjectionArticleCount =>
          /\ parse.injectCalls = 0
          /\ parse.pc = "finished" /\ parse.settledBy = "end" => parse.settled = "resolved"

\* The closures of the second chunk are under way, those of the first
\* have all returned.
C34_Witness ==
    /\ parse.pc = "injecting"
    /\ parse.chunk = 2
    /\ parse.injectCalls = InjectionChunkSize + 1
    /\ parse.injectReturns = InjectionChunkSize

\* ---------------------------------------------------- concurrent passes
\* The idHashes an invocation has found new and hands back for delivery.
DeliveredAsNew(i) ==
    {invocation[i].articlesToDeliver[k].flattened.idHash :
        k \in {n \in 1..Len(invocation[i].articlesToDeliver) :
                  \E m \in 1..Len(invocation[i].newArticles) :
                      invocation[i].newArticles[m].flattened.idHash
                          = invocation[i].articlesToDeliver[n].flattened.idHash}}

BothPassesReturned ==
    \A i \in Invocations : invocation[i].pc = "returned" /\ invocation[i].kind = "pass"

\* C35: when two non-seed invocations for the same feed on the same XML
\* have both returned, no new article (by idHash) is in articlesToDeliver
\* of both.
C35_ConcurrentAtMostOnce ==
    BothPassesReturned =>
        \A i \in Invocations, j \in Invocations :
            i # j => DeliveredAsNew(i) \cap DeliveredAsNew(j) = {}

\* ------------------------------------------------------ new and seen
IdHashesOf(articles) == {articles[k].flattened.idHash : k \in 1..Len(articles)}

\* How many times the list holds an article with this idHash.
TimesOfIdHash(articles, idHash) ==
    Cardinality({k \in 1..Len(articles) : articles[k].flattened.idHash = idHash})

\* C36: in a non-seed pass every idHash of the batch is the idHash of a
\* new article or of a seen article and never of both; newArticles holds
\* one article per idHash, and a new article is handed back for delivery
\* once at most, even when the batch repeats its idHash.
C36_NewAndSeenPartitionTheBatch ==
    NonSeedPassed =>
        /\ IdHashesOf(last.newArticles) \cup IdHashesOf(last.seenArticles)
              = IdHashesOf(last.allArticles)
        /\ IdHashesOf(last.newArticles) \cap IdHashesOf(last.seenArticles) = {}
        /\ \A h \in IdHashesOf(last.newArticles) :
              /\ TimesOfIdHash(last.newArticles, h) = 1
              /\ TimesOfIdHash(last.articlesToDeliver, h) <= 1

\* A batch of two articles with one idHash, new, next to nothing seen:
\* one of the two is handed back.
C36_Witness ==
    /\ NonSeedPassed
    /\ Len(last.allArticles) = 2
    /\ last.allArticles[1].flattened.idHash = last.allArticles[2].flattened.idHash
    /\ last.allArticles[1] # last.allArticles[2]
    /\ Len(last.newArticles) = 1
    /\ last.seenArticles = <<>>
    /\ Len(last.articlesToDeliver) = 1

\* ------------------------------------------------------ what is returned
\* How many times the list holds the article.
TimesOf(articles, article) ==
    Cardinality({k \in 1..Len(articles) : articles[k] = article})

\* C37: whatever the path the call returns by, allArticles is the batch,
\* item by item in the order of the XML; articlesToDeliver holds articles
\* of allArticles only, none of them more often than the batch holds it,
\* and none of them both as a new article and as a passed one.
C37_ReturnsTheBatchAndDeliversFromIt ==
    Passed =>
        /\ Len(last.allArticles) = Len(feedXml[LastFeed])
        /\ \A i \in 1..Len(last.allArticles) :
              last.allArticles[i] = BuildArticle(feedXml[LastFeed][i])
        /\ \A k \in 1..Len(last.articlesToDeliver) :
              /\ TimesOf(last.allArticles, last.articlesToDeliver[k]) >= 1
              /\ TimesOf(last.articlesToDeliver, last.articlesToDeliver[k])
                    <= TimesOf(last.allArticles, last.articlesToDeliver[k])
        /\ IdHashesOf(last.articlesPastBlocks)
              \cap IdHashesOf(last.articlesPassedComparisons) = {}

\* A pass hands back a new article and a passed one, oldest first.
C37_Witness ==
    /\ NonSeedPassed
    /\ Len(last.articlesToDeliver) = 2
    /\ Len(last.articlesPastBlocks) = 1
    /\ Len(last.articlesPassedComparisons) = 1
    /\ last.allArticles[1] # last.allArticles[2]
    /\ last.articlesToDeliver[1] = last.allArticles[2]

\* ------------------------------------------------------ withheld articles
\* The new articles of the latest pass that it did not hand back.
Withheld ==
    {last.newArticles[k] : k \in {n \in 1..Len(last.newArticles) :
        TimesOfIdHash(last.articlesToDeliver, last.newArticles[n].flattened.idHash) = 0}}

IdRowOf(article) == <<LastFeed, "id", article.flattened.idHash>>

\* C38: a new article that a non-seed pass does not hand back, because a
\* blocking comparison matched or because the date check dropped it, has
\* its id row in the store when the pass has returned, so that a later
\* pass finds it seen.
C38_WithheldArticleIsStored ==
    NonSeedPassed => \A article \in Withheld : IdRowOf(article) \in fieldRows

\* ------------------------------------------------------ fetch termination
\* C39: a findOrFetchFeedArticles call makes three attempts at most (the
\* original URL, "/feed", "/rss") and each attempt calls the Fetcher twice
\* at most, once for the URL and once for the feed the HTML page links
\* to, also when the page links to itself; without findRssFromHtml an
\* attempt calls the Fetcher once at most.
C39_FetchTerminates ==
    Finding =>
        /\ Len(serviceCall.attempts) <= 3
        /\ Len(FirstAttempt.fetched) <= 2
        /\ Len(FeedProbe.fetched) <= 2
        /\ Len(RssProbe.fetched) <= 2
        /\ Len(serviceCall.fetched) <= 2 * Len(serviceCall.attempts)
        /\ ~serviceCall.findRssFromHtml
              => Len(serviceCall.fetched) <= Len(serviceCall.attempts)

\* Three attempts of two Fetcher calls each, the last on a page that
\* links to itself.
C39_Witness ==
    /\ Finding
    /\ Len(serviceCall.attempts) = 3
    /\ Len(serviceCall.fetched) = 6
    /\ serviceCall.fetched[5] = RssProbeUrl
    /\ serviceCall.fetched[6] = RssProbeUrl
    /\ upstream[RssProbeUrl].kind = "html"
    /\ serviceCall.thrown = InvalidFeedException

====
